---- MODULE Spec2Model ----
(***************************************************************************)
(* Note persistence and auto-save core of tiptap-rn:                       *)
(*   - the notes table and updateNote/deleteNote of noteQueries.ts,        *)
(*   - the repository functions of noteQueries.ts on the columns of a row  *)
(*     (createNote, updateNote, getNoteById, searchNotes, deleteNote) and  *)
(*     the row/entity transforms of the Note model,                        *)
(*   - the NoteService auto-save coordinator (timers, pending buffers),    *)
(*   - the NoteDetail screen that drives them.                             *)
(* JavaScript runs one macrotask at a time; an action is one macrotask     *)
(* (a call from the UI, a timer callback, the completion of a store        *)
(* operation together with the continuations it resumes).                  *)
(***************************************************************************)
EXTENDS Integers, Sequences, FiniteSets, Bags, TLC

\* ------------------------------------------------------------------ bounds
\* Total number of calls a caller makes on the service (Spec).
MaxCalls == 3
\* The same where only scheduleAutoSave, saveAllPendingChanges and cleanup are
\* called, on both notes (FlushSpec).
MaxFlushCalls == 4
\* Things the user of the NoteDetail screen does in one run (SessionSpec).
MaxEvents == 4
\* Repository calls that write, per run of RepoSpec and TextSpec.
MaxWrites == 3
\* Pieces in a content TextSpec draws.
MaxLen == 3

\* Note ids in the table, and the values an edit can give a field.
Ids == {"n1", "n2"}
\* The note the callers of Spec work on.
SpecIds == {"n1"}
Vals == {"a", "b"}
\* Title and content of every row before any edit.
Orig == "o"
\* A field an UpdateNoteParams object does not carry (undefined).
Absent == "undefined"
\* autoSaveTimers has no entry for the note.
NoTimer == "none"

Fields == {"title", "content"}
NoId == "-"

\* ------------------------------------------------------------------ state
VARIABLES
    rows,            \* notes table: id -> row
    autoSaveTimers,  \* NoteService.autoSaveTimers: id -> its timer handle:
                     \*   "armed" (set, not yet fired), "fired" or NoTimer
    pendingChanges,  \* NoteService.pendingChanges: Map, in insertion order
    orphans,         \* id -> number of timers that are set and not yet fired
                     \*   and whose handle autoSaveTimers no longer holds
    tasks,           \* bag of the async calls suspended on the store
    calls,           \* number of calls made so far
    ev,              \* what the last step did
    issued,          \* id -> number of updateNote calls issued so far
    lastIssued,      \* id -> params of the last updateNote call issued
    wanted,          \* id -> field -> value last handed to scheduleAutoSave
    burst,           \* id -> the run of scheduleAutoSave calls in progress
    cancelled,       \* id -> what happened since the last cancelAutoSave(id)
    retained,        \* id -> the buffer is one a failed write left behind
    sess,            \* the NoteDetail screen: its React state
    discard,         \* what became of the Discard chosen on the screen
    scen             \* how far the run has followed each scenario on the screen

VARIABLES
    db,              \* noteQueries.db: "null" or "open"
    isInitializing,  \* noteQueries.isInitializing
    columns,         \* the columns of the notes table; {} when there is none
    before,          \* history: the columns before any initialisation
    last,            \* history: how the last initialisation to finish ended
    proc,            \* caller -> where its call of the repository stands
    repo             \* the notes table with all its columns, and the calls of
                     \*   the repository functions on it

serviceVars ==
    <<rows, autoSaveTimers, pendingChanges, orphans, tasks, calls, ev,
      issued, lastIssued, wanted, burst, cancelled, retained, sess,
      discard, scen>>

schemaVars == <<db, isInitializing, columns, before, last, proc, repo>>

vars == <<serviceVars, schemaVars>>

\* ------------------------------------------------------------------ values
NoChanges == [title |-> Absent, content |-> Absent]

\* UpdateNoteParams without the id: title and content, each optional.
Params ==
    { p \in [title : Vals \cup {Absent}, content : Vals \cup {Absent}] :
        p # NoChanges }

\* What updateTitle and updateContent hand to scheduleAutoSave: one field.
EditParams == { p \in Params : p.title = Absent \/ p.content = Absent }

\* What handleSave hands to saveNote: the title and the content.
SaveParams == { p \in Params : p.title # Absent /\ p.content # Absent }

NoRow == [title |-> Absent, content |-> Absent, version |-> 0, isDeleted |-> FALSE]

\* An id under which the table holds no row: no SELECT returns it.
NoSuchRow == [NoRow EXCEPT !.isDeleted = TRUE]

\* The route parameter of the "create new" route; no row has this id.
NewRoute == "new"

\* What a returning saveAllPendingChanges leaves for the record: the ids it
\* was called for, those it wrote successfully, and those whose buffer it
\* wrote or found absent and that were not scheduled again since.
NoRet ==
    [is |-> FALSE, snap |-> {}, tried |-> {}, skipped |-> {}, okIds |-> {},
     clean |-> {}]

\* An async call suspended on the store; rest and log belong to the loop of
\* saveAllPendingChanges.
\* The function awaiting a call, with the title and content of its closure.
NoCaller == [fn |-> "-", title |-> Absent, content |-> Absent]

NoTask ==
    [kind |-> "-", id |-> NoId, changes |-> NoChanges, phase |-> "-",
     existing |-> NoRow, rest |-> <<>>, log |-> NoRet, caller |-> NoCaller]

\* ------------------------------------------------------------------ Map
RECURSIVE MapIndex(_, _, _)
MapIndex(m, id, i) ==
    IF i > Len(m) THEN 0
    ELSE IF m[i].id = id THEN i
    ELSE MapIndex(m, id, i + 1)

MapHas(m, id) == MapIndex(m, id, 1) # 0

\* Map.get(id) || {}
MapGet(m, id) ==
    IF MapHas(m, id) THEN m[MapIndex(m, id, 1)].changes ELSE NoChanges

\* Map.set keeps the position of a key that is present, appends a new one.
MapSet(m, id, c) ==
    IF MapHas(m, id)
    THEN [m EXCEPT ![MapIndex(m, id, 1)] = [id |-> id, changes |-> c]]
    ELSE Append(m, [id |-> id, changes |-> c])

MapDelete(m, id) == SelectSeq(m, LAMBDA e : e.id # id)

\* Array.from(Map.keys())
MapKeys(m) == [i \in 1..Len(m) |-> m[i].id]

\* { ...existing, ...params }: fields present in params overwrite.
Spread(existing, params) ==
    [f \in Fields |-> IF params[f] # Absent THEN params[f] ELSE existing[f]]

\* ------------------------------------------------------------------ store
\* updateNote, lines 312-340: merge the provided fields over the row that was
\* read; the version is bumped whenever content is provided.
UpdatedNote(existing, params) ==
    [title     |-> IF params.title # Absent THEN params.title ELSE existing.title,
     content   |-> IF params.content # Absent THEN params.content ELSE existing.content,
     version   |-> IF params.content # Absent
                   THEN existing.version + 1 ELSE existing.version,
     isDeleted |-> existing.isDeleted]

\* A lookup that also returns soft-deleted rows.
FoundDeletedToo(row) == TRUE

\* getNoteById: SELECT ... WHERE id = ? AND is_deleted = 0
Found(row) == ~row.isDeleted

\* createNote with the title and content loadNote gives it.
NewNote ==
    [title |-> "Untitled Note", content |-> "<p></p>", version |-> 1,
     isDeleted |-> FALSE]

\* deleteNote: UPDATE notes SET is_deleted = 1 WHERE id = ?
SoftDeleted(row) == [row EXCEPT !.isDeleted = TRUE]

\* ------------------------------------------------------------------ service
\* The part of the state the service methods read and write, as one record;
\* wrote and ret report what a step did.
World ==
    [timers |-> autoSaveTimers, pending |-> pendingChanges, orphans |-> orphans,
     tasks |-> tasks, issued |-> issued, lastIssued |-> lastIssued,
     wrote |-> NoId, ret |-> NoRet, caller |-> NoCaller]

InFlight == BagToSet(tasks)

\* A call that never returns to whoever awaits it.
Suspended(w, t) == w

Started(w, t) == [w EXCEPT !.tasks = @ (+) SetToBag({t})]
Finished(w, t) == [w EXCEPT !.tasks = @ (-) SetToBag({t})]

\* NoteService.cancelAutoSave: clearTimeout and drop the map entry; the
\* pending buffer is not touched.
cancelAutoSave(w, id) ==
    IF w.timers[id] # NoTimer
    THEN [w EXCEPT !.timers[id] = NoTimer]
    ELSE w

\* The same with the pending buffer replaced instead of merged.
scheduleAutoSaveNoMerge(w, id, p) ==
    LET w1 == cancelAutoSave(w, id)
    IN  [w1 EXCEPT !.pending = MapSet(@, id, Spread(NoChanges, p)),
                   !.timers[id] = "armed"]

\* NoteService.scheduleAutoSave with autoSaveConfig.enabled.
scheduleAutoSave(w, id, p) ==
    LET w1 == cancelAutoSave(w, id)
        existingChanges == MapGet(w1.pending, id)
    IN  [w1 EXCEPT !.pending = MapSet(@, id, Spread(existingChanges, p)),
                   !.timers[id] = "armed"]

\* A call of updateNote(params): it suspends on getNoteById.
callUpdateNote(w, kind, id, changes, rest, log) ==
    [Started(w, [kind |-> kind, id |-> id, changes |-> changes,
                 phase |-> "read", existing |-> NoRow,
                 rest |-> rest, log |-> log, caller |-> w.caller])
       EXCEPT !.caller = NoCaller,
              !.issued[id] = @ + 1,
              !.lastIssued[id] = changes,
              !.wrote = IF kind \in {"auto", "flush"} THEN id ELSE NoId]

\* NoteService.executeAutoSave up to its await: nothing happens (not even the
\* finally block) when the note has no pending changes.
executeAutoSave(w, kind, id, rest, log) ==
    IF ~MapHas(w.pending, id)
    THEN w
    ELSE callUpdateNote(w, kind, id, MapGet(w.pending, id), rest, log)

\* The same without the pendingChanges.delete on success.
afterAutoSaveKeepsBuffer(w, id, ok) ==
    [w EXCEPT !.pending = @,
              !.orphans[id] = IF w.timers[id] = "armed" THEN @ + 1 ELSE @,
              !.timers[id] = NoTimer]

\* NoteService.executeAutoSave after its await: the buffer is deleted on
\* success only, the map entry always (finally); the timer behind a handle
\* that is dropped without clearTimeout stays set.
afterAutoSave(w, id, ok) ==
    [w EXCEPT !.pending = IF ok THEN MapDelete(@, id) ELSE @,
              !.orphans[id] = IF w.timers[id] = "armed" THEN @ + 1 ELSE @,
              !.timers[id] = NoTimer]

\* The for loop of NoteService.saveAllPendingChanges, from the note ids still
\* to do, until it suspends on a write or returns.
RECURSIVE flushLoop(_, _, _)
flushLoop(w, ids, log) ==
    IF ids = <<>>
    THEN [w EXCEPT !.ret = [log EXCEPT !.is = TRUE]]
    ELSE LET noteId == Head(ids)
             w1 == cancelAutoSave(w, noteId)
         IN  IF MapHas(w1.pending, noteId)
             THEN executeAutoSave(w1, "flush", noteId, Tail(ids),
                                  [log EXCEPT !.tried = @ \cup {noteId}])
             ELSE flushLoop(w1, Tail(ids),
                            [log EXCEPT !.skipped = @ \cup {noteId},
                                        !.clean = @ \cup {noteId}])

\* NoteService.saveAllPendingChanges up to its first await.
saveAllPendingChanges(w) ==
    LET pendingNoteIds == MapKeys(w.pending)
    IN  IF Len(pendingNoteIds) = 0
        THEN w
        ELSE flushLoop(w, pendingNoteIds,
                       [NoRet EXCEPT !.snap =
                           {pendingNoteIds[i] : i \in 1..Len(pendingNoteIds)}])

\* NoteService.saveNote up to its await.
saveNote(w, id, p) ==
    callUpdateNote(cancelAutoSave(w, id), "save", id, p, <<>>, NoRet)

\* NoteService.deleteNote up to its await.
deleteNote(w, id) ==
    LET w1 == cancelAutoSave(w, id)
    IN  Started([w1 EXCEPT !.pending = MapDelete(@, id)],
                [NoTask EXCEPT !.kind = "delete", !.id = id, !.phase = "del"])

\* NoteService.cleanup: clearTimeout for every handle in the map.
cleanup(w) ==
    [w EXCEPT !.timers = [id \in Ids |-> NoTimer],
              !.pending = <<>>]

\* NoteService.hasPendingChanges
hasPendingChanges(id) == MapHas(pendingChanges, id)

\* NoteService.initialize, getNote and createNewNote up to their await, for the
\* caller w.caller; id is the id asked for.
initialize(w, id) ==
    [Started(w, [NoTask EXCEPT !.kind = "load", !.id = id, !.phase = "init",
                               !.caller = w.caller])
       EXCEPT !.caller = NoCaller]

getNote(w, id) ==
    [Started(w, [NoTask EXCEPT !.kind = "load", !.id = id, !.phase = "get",
                               !.caller = w.caller])
       EXCEPT !.caller = NoCaller]

createNewNote(w, id) ==
    [Started(w, [NoTask EXCEPT !.kind = "load", !.id = id, !.phase = "create",
                               !.caller = w.caller])
       EXCEPT !.caller = NoCaller]

\* The same creating a note whatever the route.
resumeLoadAnyRoute(w, t, ok) ==
    LET w1 == [Finished(w, t) EXCEPT !.caller = t.caller]
    IN  CASE t.phase = "init" /\ ok -> getNote(w1, t.id)
          [] t.phase = "get" /\ ~ok -> createNewNote(w1, t.id)
          [] OTHER -> Finished(w, t)

\* loadNote resumed by the return of the call of task t: after initialize
\* succeeded it asks for the note; after getNote found nothing on the "create
\* new" route it creates one; otherwise it calls nothing more.
resumeLoad(w, t, ok) ==
    LET w1 == [Finished(w, t) EXCEPT !.caller = t.caller]
    IN  CASE t.phase = "init" /\ ok -> getNote(w1, t.id)
          [] t.phase = "get" /\ ~ok /\ t.id = NewRoute -> createNewNote(w1, t.id)
          [] OTHER -> Finished(w, t)

\* What resumes when the store call of task t returns.
resume(w, t, ok) ==
    CASE t.kind = "load" -> resumeLoad(w, t, ok)
      [] t.kind = "auto" ->
            afterAutoSave(Finished(w, t), t.id, ok)
      [] t.kind = "flush" ->
            flushLoop(afterAutoSave(Finished(w, t), t.id, ok), t.rest,
                      IF ok
                      THEN [t.log EXCEPT !.okIds = @ \cup {t.id},
                                         !.clean = @ \cup {t.id}]
                      ELSE t.log)
      [] OTHER ->
            Finished(w, t)

\* Timers that are set and not yet fired, for one note.
ArmedTimers(id) ==
    (IF autoSaveTimers[id] = "armed" THEN 1 ELSE 0) + orphans[id]

\* ------------------------------------------------------------------ screen
\* The NoteDetail screen opened on one note; its state after the useState
\* calls. st is where the screen is in its life: "closed" (not mounted),
\* "open", "alert" (the Unsaved Changes alert is up), "leaving" (router.back()
\* called), "unfocused", "gone" (unmounted). shown is what the closures of the
\* alert's buttons captured.
SessionId == "n1"
Empty == ""

NoShown == [note |-> FALSE, title |-> Empty, content |-> Empty, isSaving |-> FALSE]

NoSession ==
    [st |-> "closed", noteId |-> NoId, id |-> NoId, note |-> FALSE,
     error |-> FALSE,
     noteTitle |-> Empty, noteContent |-> Empty,
     originalTitle |-> Empty, originalContent |-> Empty,
     isLoading |-> TRUE, isSaving |-> FALSE, hasUnsavedChanges |-> FALSE,
     isInitializing |-> FALSE, initTimer |-> 0,
     shouldDiscardChanges |-> FALSE, shown |-> NoShown]

Pair(w, s) == [w |-> w, s |-> s]

\* title || "Untitled Note", content || "<p></p>"
OrDefault(v, d) == IF v = Empty THEN d ELSE v

\* The effect that recomputes hasUnsavedChanges after a render.
Render(s) ==
    IF ~s.isInitializing /\ ~s.isLoading
    THEN [s EXCEPT !.hasUnsavedChanges =
             s.noteContent # s.originalContent \/ s.noteTitle # s.originalTitle]
    ELSE s

\* router.back(): the screen starts to leave the stack.
routerBack(s) ==
    IF s.st \in {"open", "alert"} THEN [s EXCEPT !.st = "leaving"] ELSE s

\* NoteService.updateTitle and NoteService.updateContent
updateTitle(w, id, title) ==
    scheduleAutoSave(w, id, [title |-> OrDefault(title, "Untitled Note"),
                             content |-> Absent])

updateContent(w, id, content) ==
    scheduleAutoSave(w, id, [title |-> Absent,
                             content |-> OrDefault(content, "<p></p>")])

\* noteService.revertNoteToOriginal(id, title, content): cancel the pending
\* autosave of the note (timer and buffer), then write the title and content
\* back with updateNote.
revertNoteToOriginal(w, id, title, content) ==
    LET w1 == cancelAutoSave(w, id)
    IN  callUpdateNote([w1 EXCEPT !.pending = MapDelete(@, id)], "revert", id,
                       [title |-> title, content |-> content], <<>>, NoRet)

\* The same without setIsLoading(true).
loadNoteNoSpinner(w, s) ==
    Pair(initialize([w EXCEPT !.caller = [NoCaller EXCEPT !.fn = "loadNote"]],
                    s.noteId),
         [s EXCEPT !.st = "open", !.error = FALSE, !.isInitializing = TRUE])

\* loadNote up to its await on initialize.
loadNote(w, s) ==
    Pair(initialize([w EXCEPT !.caller = [NoCaller EXCEPT !.fn = "loadNote"]],
                    s.noteId),
         [s EXCEPT !.st = "open", !.isLoading = TRUE, !.error = FALSE,
                   !.isInitializing = TRUE])

\* The end of loadNote: the note (found, or created) is set, or the error;
\* finally the 500 ms timer that ends isInitializing is set.
endLoad(s, ok, id, row) ==
    LET s1 == IF ok
              THEN [s EXCEPT !.note = TRUE, !.id = id,
                             !.noteContent = row.content,
                             !.noteTitle = row.title,
                             !.originalContent = row.content,
                             !.originalTitle = row.title,
                             !.hasUnsavedChanges = FALSE]
              ELSE [s EXCEPT !.error = TRUE]
    IN  [s1 EXCEPT !.isLoading = FALSE, !.initTimer = @ + 1]

\* loadNote after the call of task t returned: it goes on to the next call
\* (see resumeLoad), or it ends. t.id is the id of the row returned.
afterLoad(s, t, ok, row) ==
    CASE t.phase = "init" /\ ok -> s
      [] t.phase = "get" /\ ~ok /\ s.noteId = NewRoute -> s
      [] OTHER -> endLoad(s, ok, t.id, row)

handleContentChange(w, s, newContent) ==
    Pair(IF ~s.isInitializing /\ newContent # s.originalContent /\ s.note
         THEN updateContent(w, s.id, newContent)
         ELSE w,
         [s EXCEPT !.noteContent = newContent])

handleTitleChange(w, s, newTitle) ==
    Pair(IF ~s.isInitializing /\ newTitle # s.originalTitle /\ s.note
         THEN updateTitle(w, s.id, newTitle)
         ELSE w,
         [s EXCEPT !.noteTitle = newTitle])

\* handleSave up to its await on saveNote, as the handler fn awaits it; note
\* and isSaving are those of the closure that runs.
handleSave(w, s, fn, note, isSaving) ==
    IF ~note \/ isSaving
    THEN Pair(w, IF fn = "saveAndExit" THEN routerBack(s) ELSE s)
    ELSE Pair(saveNote([w EXCEPT !.caller = [fn |-> fn, title |-> s.noteTitle,
                                             content |-> s.noteContent]],
                       s.id,
                       [title |-> OrDefault(s.noteTitle, "Untitled Note"),
                        content |-> OrDefault(s.noteContent, "<p></p>")]),
              [s EXCEPT !.isSaving = TRUE])

\* handleSave after saveNote returned, and Save & Exit after handleSave.
afterSave(s, t, ok) ==
    LET s1 == IF ok
              THEN [s EXCEPT !.hasUnsavedChanges = FALSE,
                             !.originalContent = t.caller.content,
                             !.originalTitle = t.caller.title]
              ELSE s
        s2 == [s1 EXCEPT !.isSaving = FALSE]
    IN  IF t.caller.fn = "saveAndExit" THEN routerBack(s2) ELSE s2

handleBack(s) ==
    IF s.hasUnsavedChanges
    THEN [s EXCEPT !.st = "alert",
                   !.shown = [note |-> s.note, title |-> s.originalTitle,
                              content |-> s.originalContent,
                              isSaving |-> s.isSaving]]
    ELSE routerBack(s)

\* The Discard button, up to its await on revertNoteToOriginal.
onDiscard(w, s) ==
    LET s1 == [s EXCEPT !.st = "open", !.shouldDiscardChanges = TRUE]
    IN  IF s.shown.note
        THEN Pair(revertNoteToOriginal(
                      [w EXCEPT !.caller = [fn |-> "discard",
                                            title |-> s.shown.title,
                                            content |-> s.shown.content]],
                      s.id, s.shown.title, s.shown.content),
                  s1)
        ELSE Pair(w, routerBack(s1))

\* The Discard button after revertNoteToOriginal returned, whatever its result.
afterRevert(s, t) ==
    routerBack([s EXCEPT !.noteContent = t.caller.content,
                         !.noteTitle = t.caller.title,
                         !.hasUnsavedChanges = FALSE])

\* The Save & Exit button.
onSaveAndExit(w, s) ==
    handleSave(w, [s EXCEPT !.st = "open"], "saveAndExit",
               s.shown.note, s.shown.isSaving)

\* The AppState listener, on "background" or "inactive".
handleAppStateChange(w, s) ==
    IF ~s.shouldDiscardChanges THEN saveAllPendingChanges(w) ELSE w

\* The cleanup of the focus effect.
onUnfocus(w, s) ==
    IF s.note /\ s.hasUnsavedChanges /\ ~s.shouldDiscardChanges
    THEN saveAllPendingChanges(w)
    ELSE w

\* The state of the session controller the screen is in: what it renders
\* (the loading state, the error state, or the editor, whose Save button shows
\* a spinner while isSaving), or that it has left.
Phase(s) ==
    CASE s.st = "closed" -> "Unmounted"
      [] s.st \in {"leaving", "unfocused", "gone"} -> "Closed"
      [] s.isLoading -> "Loading"
      [] s.error -> "Error"
      [] s.isSaving -> "Saving"
      [] OTHER -> "Ready"

\* What the function awaiting task t does with the screen when the call returns.
resumeCaller(s, t, ok, row) ==
    CASE t.caller.fn = "loadNote" -> Render(afterLoad(s, t, ok, row))
      [] t.caller.fn \in {"handleSave", "saveAndExit"} -> Render(afterSave(s, t, ok))
      [] t.caller.fn = "discard" -> Render(afterRevert(s, t))
      [] OTHER -> s

\* ------------------------------------------------------------------ history
\* History variables record what was asked of the service and what a step
\* did; no action reads them to decide what the program does.
Event(op, id, ok, t, w) ==
    [op |-> op, id |-> id, ok |-> ok, kind |-> t.kind, changes |-> t.changes,
     fn |-> t.caller.fn, wrote |-> w.wrote, ret |-> w.ret]

NoBurst == [st |-> "none", n |-> 0, exp |-> NoChanges, base |-> 0]

\* No buffer, no timer and no call in progress concerns the note.
NoteIdle(id) ==
    /\ ~MapHas(pendingChanges, id)
    /\ ArmedTimers(id) = 0
    /\ \A t \in InFlight :
          /\ t.id # id
          /\ \A i \in 1..Len(t.rest) : t.rest[i] # id

\* For every field, the value given by the last call that gave one.
LastGiven(old, p) ==
    [title   |-> IF p.title = Absent THEN old.title ELSE p.title,
     content |-> IF p.content = Absent THEN old.content ELSE p.content]

\* A run of scheduleAutoSave calls opens on an idle note and goes on while
\* each call comes before the timer of the previous one fires.
BurstOnSchedule(id, p) ==
    IF burst[id].st = "open"
    THEN [burst[id] EXCEPT !.exp = LastGiven(@, p), !.n = @ + 1]
    ELSE IF NoteIdle(id)
    THEN [st |-> "open", n |-> 1, exp |-> p, base |-> issued[id]]
    ELSE [NoBurst EXCEPT !.st = "void"]

Void(b) == IF b.st = "none" THEN b ELSE [NoBurst EXCEPT !.st = "void"]

\* c: cancelAutoSave(id) was called and scheduleAutoSave(id) not since;
\* q: it was called with a timer set, and nothing was called since.
NotCancelled == [c |-> FALSE, q |-> FALSE]
Unquiet(x) == [x EXCEPT !.q = FALSE]

\* retained[id]: the note has the buffer a failed timer or flush write left it.
Retain ==
    retained' =
        [id \in Ids |->
            /\ MapHas(pendingChanges', id)
            /\ \/ retained[id]
               \/ /\ ev'.op = "update"
                  /\ ev'.kind \in {"auto", "flush"}
                  /\ ev'.id = id
                  /\ ~ev'.ok]

\* What became of the Discard chosen on the screen: st is "no", "chosen",
\* "reverted" or "failed"; loaded is the title and content the screen loaded;
\* asLoaded, the originals Discard wrote back were those; late, the user
\* edited after choosing Discard; saved, the user asked for a save.
NoDiscard ==
    [st |-> "no", late |-> FALSE, saved |-> FALSE, asLoaded |-> FALSE,
     loaded |-> NoChanges]

Late(d) == IF d.st = "no" THEN d ELSE [d EXCEPT !.late = TRUE]

Awaited(t, ok, row) ==
    /\ sess' = resumeCaller(sess, t, ok, row)
    /\ discard' =
          CASE t.caller.fn = "loadNote" /\ ok /\ t.phase # "init" ->
                  [discard EXCEPT !.loaded = [title |-> row.title,
                                             content |-> row.content]]
            [] t.caller.fn = "discard" ->
                  [discard EXCEPT !.st = IF ok THEN "reverted" ELSE "failed"]
            [] OTHER -> discard

\* Steps of the store and of the screen's own timers, which no scenario counts.
Background ==
    {"mount", "retry", "inited", "got", "created", "ready", "read", "update",
     "unfocus", "unmount"}

\* The title-only scenario: "title" while the user has only edited the title,
\* each time after the initialising delay, and no timer has fired; "flushed"
\* once the app has then gone to the background and nothing but the flush's
\* write, which has not failed, has happened since; "off" otherwise.
TitleOnly(x) ==
    CASE ev'.op = "editTitle" ->
            IF x \in {"fresh", "title"} /\ ~sess.isInitializing /\ sess.initTimer = 0
            THEN "title" ELSE "off"
      [] ev'.op = "background" -> IF x = "title" THEN "flushed" ELSE "off"
      [] ev'.op \in Background /\ ev'.ok -> x
      [] OTHER -> "off"

\* The explicit save: "saving" from the step in which handleSave calls
\* saveNote, "saved" once that call has succeeded, "none" again as soon as the
\* user edits or chooses Discard, or when the save fails.
SavedOnce(x) ==
    CASE ev'.op \in {"save", "saveAndExit"} ->
            IF sess'.isSaving /\ ~sess.isSaving THEN "saving" ELSE x
      [] ev'.op \in {"editTitle", "editContent", "discard"} -> "none"
      [] ev'.op = "update" /\ ev'.kind = "save" ->
            IF ~ev'.ok THEN "none" ELSE IF x = "saving" THEN "saved" ELSE x
      [] OTHER -> x

NoScenario == [titleOnly |-> "fresh", saved |-> "none"]

Observe ==
    scen' = [titleOnly |-> TitleOnly(scen.titleOnly),
             saved |-> SavedOnce(scen.saved)]

\* A scheduleAutoSave(id) gives the note a buffer no running flush answers for.
Rescheduled(w, id) ==
    [w EXCEPT !.tasks =
        BagOfAll(LAMBDA t : [t EXCEPT !.log.clean = @ \ {id}], @)]

\* ------------------------------------------------------------------ actions
Commit(w) ==
    /\ autoSaveTimers' = w.timers
    /\ pendingChanges' = w.pending
    /\ orphans' = w.orphans
    /\ tasks' = w.tasks
    /\ issued' = w.issued
    /\ lastIssued' = w.lastIssued

\* A row as an earlier session left it.
LiveRow == [title |-> Orig, content |-> Orig, version |-> 1, isDeleted |-> FALSE]

\* The state after construction, over the table r.
Start(r) ==
    /\ rows = r
    /\ autoSaveTimers = [id \in Ids |-> NoTimer]
    /\ pendingChanges = <<>>
    /\ orphans = [id \in Ids |-> 0]
    /\ tasks = EmptyBag
    /\ calls = 0
    /\ issued = [id \in Ids |-> 0]
    /\ lastIssued = [id \in Ids |-> NoChanges]
    /\ ev = Event("init", NoId, TRUE, NoTask, World)
    /\ wanted = [id \in Ids |-> NoChanges]
    /\ burst = [id \in Ids |-> NoBurst]
    /\ cancelled = [id \in Ids |-> NotCancelled]
    /\ retained = [id \in Ids |-> FALSE]
    /\ sess = NoSession
    /\ discard = NoDiscard
    /\ scen = NoScenario

\* ------------------------------------------------------------------ schema
\* The columns of CREATE TABLE notes, and those initializeDatabase adds to a
\* table that lacks them.
AllColumns ==
    {"id", "title", "content", "plain_text", "word_count", "created_at",
     "updated_at", "folder_id", "tags", "reading_time", "last_edit_position",
     "is_pinned", "is_favorite", "is_deleted", "metadata"}

Added == <<"plain_text", "is_deleted", "metadata">>

Callers == {"p1", "p2", "p3"}

\* A call of the repository by one caller. op is "init" (initializeDatabase
\* itself) or "query" (a query, through ensureDatabase); pc is the await the
\* call is suspended on, "idle" before and "done" after; existing and todo are
\* the locals of initializeDatabase; waited is the caller whose initialisation
\* was in flight when this one arrived; got is what initializeDatabase
\* returned, result what the call returned; ran tells whether the query was
\* executed, and if so whether the schema was ready ("ready") or not ("early");
\* at counts the CREATE INDEX statements the initialisation has executed and
\* lost holds the indexes whose creation failed.
NoProc ==
    [pc |-> "idle", op |-> "-", existing |-> {}, todo |-> <<>>, waited |-> "-",
     got |-> "-", result |-> "-", ran |-> "-", at |-> 0, lost |-> {}]

\* The indexes initializeDatabase creates, in the order of its statements.
Indexes ==
    <<"idx_notes_updated_at", "idx_notes_is_deleted", "idx_notes_folder_id",
      "idx_notes_plain_text">>

\* The awaits of the one initialisation that runs.
Running == {"open", "wal", "info", "alter", "create", "index", "test"}

Runner == CHOOSE p \in Callers : proc[p].pc \in Running

\* initializeDatabase returned r to the call c: an "init" call returns it, a
\* query goes on to its statement on success and returns the failure otherwise.
Returned(c, r) ==
    LET c1 == [c EXCEPT !.got = r]
    IN  IF c.op = "query" /\ r = "ok"
        THEN [c1 EXCEPT !.pc = "query"]
        ELSE [c1 EXCEPT !.pc = "done", !.result = r]

\* What a repository call returned: the entities of its data, in notes; old
\* is history, the rows with the id of a call as the call found them.
NoOut ==
    [op |-> "-", ok |-> TRUE, id |-> NoId, params |-> <<>>, notes |-> <<>>,
     old |-> <<>>]

\* No row, and no call of a repository function made.
NoRepo == [table |-> <<>>, now |-> 1, reads |-> {}, out |-> NoOut, html |-> <<>>]

\* The state of the store before the first call, over a table of columns tb.
Store(tb) ==
    /\ db = "null"
    /\ isInitializing = FALSE
    /\ columns = tb
    /\ before = tb
    /\ last = "-"
    /\ proc = [p \in Callers |-> NoProc]
    /\ repo = NoRepo

\* initializeDatabase without the isInitializing guard.
EnterInitializeDatabaseUnguarded(p, op) ==
    LET c == [proc[p] EXCEPT !.op = op]
    IN  IF db # "null"
        THEN /\ proc' = [proc EXCEPT ![p] = Returned(c, "ok")]
             /\ UNCHANGED <<db, isInitializing>>
        ELSE /\ isInitializing' = TRUE
             /\ proc' = [proc EXCEPT ![p] = [c EXCEPT !.pc = "open"]]
             /\ UNCHANGED db

\* initializeDatabase up to its first await, for caller p making call op.
EnterInitializeDatabase(p, op) ==
    LET c == [proc[p] EXCEPT !.op = op]
    IN  IF isInitializing
        THEN /\ proc' = [proc EXCEPT ![p] = [c EXCEPT !.pc = "wait",
                                                      !.waited = Runner]]
             /\ UNCHANGED <<db, isInitializing>>
        ELSE IF db # "null"
        THEN /\ proc' = [proc EXCEPT ![p] = Returned(c, "ok")]
             /\ UNCHANGED <<db, isInitializing>>
        ELSE /\ isInitializing' = TRUE
             /\ proc' = [proc EXCEPT ![p] = [c EXCEPT !.pc = "open"]]
             /\ UNCHANGED db

\* A caller calls initializeDatabase (NoteService.initialize).
CallInitializeDatabase(p) ==
    /\ proc[p].pc = "idle"
    /\ EnterInitializeDatabase(p, "init")
    /\ UNCHANGED <<columns, before, last, serviceVars, repo>>

\* A caller calls a query of the repository: ensureDatabase initialises when
\* db is null and hands db to the query otherwise.
CallQuery(p) ==
    /\ proc[p].pc = "idle"
    /\ IF db = "null"
       THEN EnterInitializeDatabase(p, "query")
       ELSE /\ proc' = [proc EXCEPT ![p] = [@ EXCEPT !.op = "query",
                                                     !.pc = "query"]]
            /\ UNCHANGED <<db, isInitializing>>
    /\ UNCHANGED <<columns, before, last, serviceVars, repo>>

\* The 100 ms poll of a waiting call finds isInitializing false.
PollEnds(p) ==
    /\ proc[p].pc = "wait"
    /\ ~isInitializing
    /\ proc' = [proc EXCEPT ![p] =
                   Returned(@, IF db # "null" THEN "ok" ELSE "failed")]
    /\ UNCHANGED <<db, isInitializing, columns, before, last, serviceVars, repo>>

\* db = await SQLite.openDatabaseAsync(...)
OpenDatabase(p) ==
    /\ proc[p].pc = "open"
    /\ db' = "open"
    /\ proc' = [proc EXCEPT ![p].pc = "wal"]
    /\ UNCHANGED <<isInitializing, columns, before, last, serviceVars, repo>>

\* PRAGMA journal_mode = WAL
EnableWal(p) ==
    /\ proc[p].pc = "wal"
    /\ proc' = [proc EXCEPT ![p].pc = "info"]
    /\ UNCHANGED <<db, isInitializing, columns, before, last, serviceVars, repo>>

\* PRAGMA table_info(notes), and the checks up to the next statement.
TableInfo(p) ==
    /\ proc[p].pc = "info"
    /\ LET todo == SelectSeq(Added, LAMBDA c : c \notin columns)
       IN  proc' = [proc EXCEPT ![p] =
                      [@ EXCEPT !.existing = columns,
                                !.todo = IF columns # {} THEN todo ELSE <<>>,
                                !.pc = IF columns = {} THEN "create"
                                       ELSE IF todo # <<>> THEN "alter"
                                       ELSE "index"]]
    /\ UNCHANGED <<db, isInitializing, columns, before, last, serviceVars, repo>>

\* ALTER TABLE notes ADD COLUMN ... DEFAULT ..., for the next column missing.
AlterTable(p) ==
    /\ proc[p].pc = "alter"
    /\ columns' = columns \cup {Head(proc[p].todo)}
    /\ proc' = [proc EXCEPT ![p] =
                   [@ EXCEPT !.todo = Tail(@),
                             !.pc = IF Tail(proc[p].todo) = <<>> THEN "index"
                                    ELSE "alter"]]
    /\ UNCHANGED <<db, isInitializing, before, last, serviceVars, repo>>

\* CREATE TABLE notes (...)
CreateTable(p) ==
    /\ proc[p].pc = "create"
    /\ columns' = AllColumns
    /\ proc' = [proc EXCEPT ![p].pc = "index"]
    /\ UNCHANGED <<db, isInitializing, before, last, serviceVars, repo>>

\* The same with a failure that reaches the catch of initializeDatabase.
CreateIndexFatal(p, ok) ==
    /\ proc[p].pc = "index"
    /\ db' = IF ok THEN db ELSE "null"
    /\ isInitializing' = (ok /\ isInitializing)
    /\ proc' = [proc EXCEPT ![p] =
                   IF ok
                   THEN [@ EXCEPT !.at = @ + 1,
                                  !.pc = IF proc[p].at + 1 = Len(Indexes)
                                         THEN "test" ELSE "index"]
                   ELSE Returned([@ EXCEPT !.at = @ + 1,
                                           !.lost = @ \cup {Indexes[proc[p].at + 1]}],
                                 "failed")]
    /\ last' = IF ok THEN last ELSE "failed"
    /\ UNCHANGED <<columns, before, serviceVars, repo>>

\* One of the four CREATE INDEX IF NOT EXISTS, each in a try of its own: it
\* succeeds (ok) or throws, and its catch only logs; the next statement is the
\* next index, or the test query after the last one.
CreateIndex(p, ok) ==
    /\ proc[p].pc = "index"
    /\ proc' = [proc EXCEPT ![p].at = @ + 1,
                            ![p].lost = IF ok THEN @
                                        ELSE @ \cup {Indexes[proc[p].at + 1]},
                            ![p].pc = IF proc[p].at + 1 = Len(Indexes)
                                      THEN "test" ELSE "index"]
    /\ UNCHANGED <<db, isInitializing, columns, before, last, serviceVars, repo>>

\* SELECT sqlite_version(), then isInitializing = false and success.
TestDatabase(p) ==
    /\ proc[p].pc = "test"
    /\ isInitializing' = FALSE
    /\ proc' = [proc EXCEPT ![p] = Returned(@, "ok")]
    /\ last' = "ok"
    /\ UNCHANGED <<db, columns, before, serviceVars, repo>>

\* The same with a catch that does not reset db.
InitializeFailsKeepsHandle(p) ==
    /\ proc[p].pc \in Running \ {"index"}
    /\ isInitializing' = FALSE
    /\ proc' = [proc EXCEPT ![p] = Returned(@, "failed")]
    /\ last' = "failed"
    /\ UNCHANGED <<db, columns, before, serviceVars, repo>>

\* A statement of the initialisation throws: the catch resets db and
\* isInitializing and returns the failure.
InitializeFails(p) ==
    /\ proc[p].pc \in Running \ {"index"}
    /\ db' = "null"
    /\ isInitializing' = FALSE
    /\ proc' = [proc EXCEPT ![p] = Returned(@, "failed")]
    /\ last' = "failed"
    /\ UNCHANGED <<columns, before, serviceVars, repo>>

\* The statement of a query is executed on the handle ensureDatabase returned;
\* it fails when the table lacks a column it names.
RunQuery(p) ==
    /\ proc[p].pc = "query"
    /\ proc' = [proc EXCEPT ![p] =
                   [@ EXCEPT !.pc = "done",
                             !.ran = IF ~isInitializing /\ AllColumns \subseteq columns
                                     THEN "ready" ELSE "early",
                             !.result = IF AllColumns \subseteq columns
                                        THEN "ok" ELSE "failed"]]
    /\ UNCHANGED <<db, isInitializing, columns, before, last, serviceVars, repo>>

\* ------------------------------------------------------------------ text
\* A string is the sequence of its pieces; Chars gives the number of
\* characters of every piece.  No piece starts inside another one, so the
\* regular expressions of the code act on whole pieces.
Chars ==
    [x \in {"<p>", "</p>", "Hello", "world", " ", "&amp;", "&nbsp;", "%"} |->
        CASE x = "<p>" -> 3 [] x = "</p>" -> 4 [] x = "&nbsp;" -> 6
          [] x \in {"Hello", "world", "&amp;"} -> 5 [] OTHER -> 1]

\* String.prototype.length
RECURSIVE length(_)
length(s) == IF s = <<>> THEN 0 ELSE Chars[Head(s)] + length(Tail(s))

\* String.prototype.trim
RECURSIVE trim(_)
trim(s) ==
    IF s # <<>> /\ Head(s) = " " THEN trim(Tail(s))
    ELSE IF s # <<>> /\ s[Len(s)] = " " THEN trim(SubSeq(s, 1, Len(s) - 1))
    ELSE s

\* html.replace(/<[^>]*>/g, "")
stripTags(html) == SelectSeq(html, LAMBDA x : x \notin {"<p>", "</p>"})

\* extractPlainText: the tags removed, &nbsp; made a space, every other entity
\* removed, then trimmed.
extractPlainText(html) ==
    LET spaced == [i \in 1..Len(stripTags(html)) |->
                      IF stripTags(html)[i] = "&nbsp;" THEN " "
                      ELSE stripTags(html)[i]]
    IN  trim(SelectSeq(spaced, LAMBDA x : x # "&amp;"))

\* A word count that counts the pieces of the text.
countPieces(text) == Len(text)

\* calculateWordCount: text.trim().split(/\s+/).length, 0 for the empty text;
\* the parts are one more than the runs of spaces inside the trimmed text.
calculateWordCount(text) ==
    IF trim(text) = <<>> THEN 0
    ELSE 1 + Cardinality({ i \in 1..(Len(trim(text)) - 1) :
                             trim(text)[i] = " " /\ trim(text)[i + 1] # " " })

\* calculateReadingTime: Math.max(1, Math.ceil(wordCount / 200))
calculateReadingTime(wordCount) ==
    IF (wordCount + 199) \div 200 > 1 THEN (wordCount + 199) \div 200 ELSE 1

\* ------------------------------------------------------------------ repository
\* The notes table at the level of its columns: repo.table holds the rows in
\* the order of their INSERT, repo.now is the clock, repo.reads the updateNote
\* calls between their SELECT and their UPDATE, repo.out what the last call
\* returned and repo.html the content the calls are made with.  A tags column
\* and a metadata column are held as the value their JSON text encodes.

\* transformNoteRowToNote; every row the repository writes has a metadata
\* column, so the branch for a row without one is never taken.
transformNoteRowToNote(row) ==
    [id |-> row.id, title |-> row.title, content |-> row.content,
     plainText |-> IF row.plain_text # <<>> THEN row.plain_text
                   ELSE trim(stripTags(row.content)),
     wordCount |-> row.word_count,
     dateCreated |-> row.created_at, lastModified |-> row.updated_at,
     folderId |-> row.folder_id, tags |-> row.tags,
     isPinned |-> row.is_pinned # 0, isDeleted |-> row.is_deleted # 0,
     metadata |-> row.metadata]

\* transformNoteToNoteRow
transformNoteToNoteRow(note) ==
    [id |-> note.id, title |-> note.title, content |-> note.content,
     plain_text |-> note.plainText, word_count |-> note.wordCount,
     created_at |-> note.dateCreated, updated_at |-> note.lastModified,
     folder_id |-> note.folderId, tags |-> note.tags,
     reading_time |-> note.metadata.readingTime,
     last_edit_position |-> note.metadata.lastEditPosition,
     is_pinned |-> IF note.isPinned THEN 1 ELSE 0,
     is_favorite |-> 0,
     is_deleted |-> IF note.isDeleted THEN 1 ELSE 0,
     metadata |-> note.metadata]

\* createNote up to its INSERT: the entity it builds, under the id the UUID
\* generator gave, at time now.
createNote(id, params, now) ==
    LET plainText == extractPlainText(params.content)
        wordCount == calculateWordCount(plainText)
    IN  [id |-> id,
         title |-> IF params.title # <<>> THEN params.title
                   ELSE <<"Untitled Note">>,
         content |-> params.content,
         plainText |-> plainText, wordCount |-> wordCount,
         dateCreated |-> now, lastModified |-> now,
         folderId |-> params.folderId, tags |-> params.tags,
         isPinned |-> FALSE, isDeleted |-> FALSE,
         metadata |-> [readingTime |-> calculateReadingTime(wordCount),
                       lastEditPosition |-> 0,
                       characterCount |-> length(params.content),
                       version |-> 1]]

\* updateNote, lines 312-340: the entity merged from the one that was read and
\* the fields params provides; params is a record of the provided fields only.
updateNote(existingNote, params, now) ==
    LET merged ==
            [existingNote EXCEPT
               !.title = IF "title" \in DOMAIN params
                         THEN params.title ELSE @,
               !.content = IF "content" \in DOMAIN params
                           THEN params.content ELSE @,
               !.lastModified = now]
    IN  IF "content" \in DOMAIN params
        THEN LET plainText == extractPlainText(params.content)
                 wordCount == calculateWordCount(plainText)
             IN  [merged EXCEPT
                    !.plainText = plainText,
                    !.wordCount = wordCount,
                    !.metadata.readingTime = calculateReadingTime(wordCount),
                    !.metadata.characterCount = length(params.content),
                    !.metadata.version = @ + 1]
        ELSE merged

\* The UPDATE statement of updateNote on table tb: every column but id and
\* created_at of the rows with the id is set from noteRow.
updateRow(tb, noteRow) ==
    [i \in 1..Len(tb) |->
        IF tb[i].id = noteRow.id
        THEN [noteRow EXCEPT !.created_at = tb[i].created_at,
                             !.reading_time = IF @ = 0 THEN 1 ELSE @]
        ELSE tb[i]]

\* A lookup by id that also returns a soft-deleted row.
getNoteByIdDeletedToo(tb, id) == SelectSeq(tb, LAMBDA row : row.id = id)

\* getNoteById: SELECT * FROM notes WHERE id = ? AND is_deleted = 0
getNoteById(tb, id) ==
    SelectSeq(tb, LAMBDA row : row.id = id /\ row.is_deleted = 0)

\* A soft delete that counts as a new version of the note.
softDeleteBumps(tb, id, now) ==
    [i \in 1..Len(tb) |->
        IF tb[i].id = id
        THEN [tb[i] EXCEPT !.is_deleted = 1, !.updated_at = now,
                           !.metadata.version = @ + 1]
        ELSE tb[i]]

\* deleteNote of noteQueries.ts:
\* UPDATE notes SET is_deleted = 1, updated_at = ? WHERE id = ?
softDelete(tb, id, now) ==
    [i \in 1..Len(tb) |->
        IF tb[i].id = id
        THEN [tb[i] EXCEPT !.is_deleted = 1, !.updated_at = now]
        ELSE tb[i]]

\* text LIKE pattern, with % for any run of characters.
RECURSIVE Like(_, _)
Like(text, pattern) ==
    IF pattern = <<>> THEN text = <<>>
    ELSE IF Head(pattern) = "%"
         THEN \/ Like(text, Tail(pattern))
              \/ text # <<>> /\ Like(Tail(text), pattern)
         ELSE /\ text # <<>>
              /\ Head(text) = Head(pattern)
              /\ Like(Tail(text), Tail(pattern))

\* The rows of tb from the one with the latest updated_at to the one with the
\* earliest (no two rows carry the same).
RECURSIVE OrderByUpdatedAtDesc(_)
OrderByUpdatedAtDesc(tb) ==
    IF tb = <<>> THEN <<>>
    ELSE LET i == CHOOSE i \in 1..Len(tb) :
                      \A j \in 1..Len(tb) : tb[j].updated_at <= tb[i].updated_at
         IN  <<tb[i]>> \o OrderByUpdatedAtDesc(
                 SubSeq(tb, 1, i - 1) \o SubSeq(tb, i + 1, Len(tb)))

\* searchNotes: the WHERE clause built from params, ORDER BY updated_at DESC,
\* LIMIT (not negative) and OFFSET 0, and every row made an
\* entity.  A tag without quote or wildcard is in the JSON text of the tags
\* exactly when it is one of the tags.
searchNotes(tb, params) ==
    LET hit(row) ==
            /\ params.includeDeleted \/ row.is_deleted = 0
            /\ params.folderId = Absent \/ row.folder_id = params.folderId
            /\ \/ params.query = <<>>
               \/ Like(row.title, <<"%">> \o params.query \o <<"%">>)
               \/ Like(row.plain_text, <<"%">> \o params.query \o <<"%">>)
            /\ params.tags \subseteq row.tags
        found == OrderByUpdatedAtDesc(SelectSeq(tb, hit))
        n == IF params.limit > Len(found) THEN Len(found) ELSE params.limit
    IN  [i \in 1..n |-> transformNoteRowToNote(found[i])]

\* ------------------------------------------------------------------ Init
Init == Start([id \in Ids |-> LiveRow]) /\ Store(AllColumns)

\* A caller invokes noteService.scheduleAutoSave({id, ...p}).
CallScheduleAutoSave(id, p) ==
    /\ LET w == scheduleAutoSave(World, id, p)
       IN  Commit(Rescheduled(w, id)) /\ ev' = Event("schedule", id, TRUE, NoTask, w)
    /\ calls' = calls + 1
    /\ wanted' = [wanted EXCEPT ![id] = LastGiven(@, p)]
    /\ burst' = [burst EXCEPT ![id] = BurstOnSchedule(id, p)]
    /\ cancelled' = [cancelled EXCEPT ![id] = NotCancelled]
    /\ UNCHANGED rows
    /\ UNCHANGED <<sess, discard>>
    /\ UNCHANGED schemaVars
    /\ Retain
    /\ Observe

\* A caller invokes noteService.cancelAutoSave(id).
CallCancelAutoSave(id) ==
    /\ LET w == cancelAutoSave(World, id)
       IN  Commit(w) /\ ev' = Event("cancel", id, TRUE, NoTask, w)
    /\ calls' = calls + 1
    /\ wanted' = [wanted EXCEPT ![id] = NoChanges]
    /\ burst' = [burst EXCEPT ![id] = Void(@)]
    /\ cancelled' = [cancelled EXCEPT ![id] =
                        [c |-> TRUE, q |-> ArmedTimers(id) > 0]]
    /\ UNCHANGED rows
    /\ UNCHANGED <<sess, discard>>
    /\ UNCHANGED schemaVars
    /\ Retain
    /\ Observe

\* A caller invokes noteService.saveNote({id, ...p}).
CallSaveNote(id, p) ==
    /\ LET w == saveNote(World, id, p)
       IN  Commit(w) /\ ev' = Event("save", id, TRUE, NoTask, w)
    /\ calls' = calls + 1
    /\ wanted' = [wanted EXCEPT ![id] = NoChanges]
    /\ burst' = [burst EXCEPT ![id] = Void(@)]
    /\ cancelled' = [cancelled EXCEPT ![id] = Unquiet(@)]
    /\ UNCHANGED rows
    /\ UNCHANGED <<sess, discard>>
    /\ UNCHANGED schemaVars
    /\ Retain
    /\ Observe

\* A caller invokes noteService.saveAllPendingChanges().
CallSaveAllPendingChanges ==
    /\ LET w == saveAllPendingChanges(World)
       IN  Commit(w) /\ ev' = Event("flush", NoId, TRUE, NoTask, w)
    /\ calls' = calls + 1
    /\ burst' = [id \in Ids |-> Void(burst[id])]
    /\ cancelled' = [id \in Ids |-> Unquiet(cancelled[id])]
    /\ UNCHANGED <<rows, wanted>>
    /\ UNCHANGED <<sess, discard>>
    /\ UNCHANGED schemaVars
    /\ Retain
    /\ Observe

\* A caller invokes noteService.deleteNote(id).
CallDeleteNote(id) ==
    /\ LET w == deleteNote(World, id)
       IN  Commit(w) /\ ev' = Event("delete", id, TRUE, NoTask, w)
    /\ calls' = calls + 1
    /\ wanted' = [wanted EXCEPT ![id] = NoChanges]
    /\ burst' = [burst EXCEPT ![id] = Void(@)]
    /\ cancelled' = [cancelled EXCEPT ![id] = Unquiet(@)]
    /\ UNCHANGED rows
    /\ UNCHANGED <<sess, discard>>
    /\ UNCHANGED schemaVars
    /\ Retain
    /\ Observe

\* A caller invokes noteService.cleanup().
CallCleanup ==
    /\ LET w == cleanup(World)
       IN  Commit(w) /\ ev' = Event("cleanup", NoId, TRUE, NoTask, w)
    /\ calls' = calls + 1
    /\ wanted' = [id \in Ids |-> NoChanges]
    /\ burst' = [id \in Ids |-> Void(burst[id])]
    /\ cancelled' = [id \in Ids |-> Unquiet(cancelled[id])]
    /\ UNCHANGED rows
    /\ UNCHANGED <<sess, discard>>
    /\ UNCHANGED schemaVars
    /\ Retain
    /\ Observe

\* The debounce interval of the timer autoSaveTimers holds for the note
\* elapses: its callback runs executeAutoSave(id).
TimerFires(id) ==
    /\ autoSaveTimers[id] = "armed"
    /\ LET w == executeAutoSave([World EXCEPT !.timers[id] = "fired"],
                                "auto", id, <<>>, NoRet)
       IN  Commit(w) /\ ev' = Event("timer", id, TRUE, NoTask, w)
    /\ burst' = [burst EXCEPT ![id] =
                    IF @.st = "open" THEN [@ EXCEPT !.st = "done"] ELSE @]
    /\ UNCHANGED <<rows, calls, wanted, cancelled>>
    /\ UNCHANGED <<sess, discard>>
    /\ UNCHANGED schemaVars
    /\ Retain
    /\ Observe

\* The same for a timer whose handle autoSaveTimers no longer holds.
OrphanTimerFires(id) ==
    /\ orphans[id] > 0
    /\ LET w == executeAutoSave([World EXCEPT !.orphans[id] = @ - 1],
                                "auto", id, <<>>, NoRet)
       IN  Commit(w) /\ ev' = Event("timer", id, TRUE, NoTask, w)
    /\ UNCHANGED <<rows, calls, wanted, burst, cancelled>>
    /\ UNCHANGED <<sess, discard>>
    /\ UNCHANGED schemaVars
    /\ Retain
    /\ Observe

\* getNoteById of task t's updateNote returns: the row is kept for the merge,
\* or the update returns NOTE_NOT_FOUND.
StoreRead(t) ==
    /\ t.phase = "read"
    /\ IF Found(rows[t.id])
       THEN LET w == Started(Finished(World, t),
                             [t EXCEPT !.existing = rows[t.id],
                                       !.phase = "write"])
            IN  /\ Commit(w) /\ ev' = Event("read", t.id, TRUE, t, w)
                /\ UNCHANGED <<sess, discard>>
       ELSE LET w == resume(World, t, FALSE)
            IN  /\ Commit(w) /\ ev' = Event("update", t.id, FALSE, t, w)
                /\ Awaited(t, FALSE, NoRow)
    /\ UNCHANGED <<rows, calls, wanted, burst, cancelled>>
    /\ UNCHANGED schemaVars
    /\ Retain
    /\ Observe

\* The UPDATE statement of task t's updateNote commits the merged row.
StoreWrite(t) ==
    /\ t.phase = "write"
    /\ rows' = [rows EXCEPT ![t.id] = UpdatedNote(t.existing, t.changes)]
    /\ LET w == resume(World, t, TRUE)
       IN  Commit(w) /\ ev' = Event("update", t.id, TRUE, t, w)
    /\ UNCHANGED <<calls, wanted, burst, cancelled>>
    /\ Awaited(t, TRUE, rows'[t.id])
    /\ UNCHANGED schemaVars
    /\ Retain
    /\ Observe

\* The soft-delete statement of task t's deleteNote commits.
StoreDelete(t) ==
    /\ t.phase = "del"
    /\ rows' = [rows EXCEPT ![t.id] = SoftDeleted(@)]
    /\ LET w == resume(World, t, TRUE)
       IN  Commit(w) /\ ev' = Event("deleted", t.id, TRUE, t, w)
    /\ UNCHANGED <<calls, wanted, burst, cancelled>>
    /\ Awaited(t, TRUE, NoRow)
    /\ UNCHANGED schemaVars
    /\ Retain
    /\ Observe

\* The store operation task t is suspended on throws: the call returns a
\* failure result and the table is unchanged.
StoreFails(t) ==
    /\ t.phase \in {"init", "get", "create", "read", "write", "del"}
    /\ LET w == resume(World, t, FALSE)
       IN  Commit(w) /\
           ev' = Event(CASE t.phase = "del" -> "deleted"
                         [] t.phase = "init" -> "inited"
                         [] t.phase = "get" -> "got"
                         [] t.phase = "create" -> "created"
                         [] OTHER -> "update",
                       t.id, FALSE, t, w)
    /\ UNCHANGED <<rows, calls, wanted, burst, cancelled>>
    /\ Awaited(t, FALSE, NoRow)
    /\ UNCHANGED schemaVars
    /\ Retain
    /\ Observe

\* ------------------------------------------------------------------ Spec
\* Every method of the service, called in any order on one note.
Next ==
    \/ \E id \in SpecIds, p \in EditParams :
          calls < MaxCalls /\ CallScheduleAutoSave(id, p)
    \/ \E id \in SpecIds : calls < MaxCalls /\ CallCancelAutoSave(id)
    \/ \E id \in SpecIds, p \in SaveParams :
          calls < MaxCalls /\ CallSaveNote(id, p)
    \/ calls < MaxCalls /\ CallSaveAllPendingChanges
    \/ \E id \in SpecIds : calls < MaxCalls /\ CallDeleteNote(id)
    \/ calls < MaxCalls /\ CallCleanup
    \/ \E id \in Ids : TimerFires(id)
    \/ \E id \in Ids : OrphanTimerFires(id)
    \/ \E t \in InFlight : StoreRead(t)
    \/ \E t \in InFlight : StoreWrite(t)
    \/ \E t \in InFlight : StoreDelete(t)
    \/ \E t \in InFlight : StoreFails(t)

Spec == Init /\ [][Next]_vars

\* ------------------------------------------------------------------ FlushSpec
\* Edits of the title of either note, flushes and cleanups.
FlushEdits == { [title |-> "a", content |-> Absent] }

FlushNext ==
    \/ \E id \in Ids, p \in FlushEdits :
          calls < MaxFlushCalls /\ CallScheduleAutoSave(id, p)
    \/ calls < MaxFlushCalls /\ CallSaveAllPendingChanges
    \/ calls < MaxFlushCalls /\ CallCleanup
    \/ \E id \in Ids : TimerFires(id)
    \/ \E id \in Ids : OrphanTimerFires(id)
    \/ \E t \in InFlight : StoreRead(t)
    \/ \E t \in InFlight : StoreWrite(t)
    \/ \E t \in InFlight : StoreFails(t)

FlushSpec == Init /\ [][FlushNext]_vars

\* ------------------------------------------------------------------ SessionSpec
\* The NoteDetail screen opened on note SessionId, and what its user does.
Typed == {"a", Empty, Orig}

\* What a step of the screen leaves alone, and its record.
ScreenStep(op, r) ==
    /\ Commit(r.w)
    /\ sess' = Render(r.s)
    /\ ev' = Event(op, SessionId, TRUE, NoTask, r.w)
    /\ UNCHANGED <<rows, wanted, burst, cancelled>>
    /\ UNCHANGED schemaVars
    /\ Retain
    /\ Observe

\* The screen mounts on the route /note/noteId: the mount effect runs
\* loadNote.
ScreenMounts(noteId) ==
    /\ sess.st = "closed"
    /\ ScreenStep("mount", loadNote(World, [sess EXCEPT !.noteId = noteId]))
    /\ UNCHANGED <<calls, discard>>

\* initializeDatabase of the initialize call of task t returns success.
StoreInit(t) ==
    /\ t.phase = "init"
    /\ LET w == resume(World, t, TRUE)
       IN  Commit(w) /\ ev' = Event("inited", t.id, TRUE, t, w)
    /\ Awaited(t, TRUE, NoRow)
    /\ UNCHANGED <<rows, calls, wanted, burst, cancelled>>
    /\ UNCHANGED schemaVars
    /\ Retain
    /\ Observe

\* getNoteById of the getNote call of task t returns the row, or no row.
StoreGet(t) ==
    /\ t.phase = "get"
    /\ LET found == t.id \in Ids /\ Found(rows[t.id])
           w == resume(World, t, found)
       IN  /\ Commit(w) /\ ev' = Event("got", t.id, found, t, w)
           /\ Awaited(t, found, IF found THEN rows[t.id] ELSE NoRow)
    /\ UNCHANGED <<rows, calls, wanted, burst, cancelled>>
    /\ UNCHANGED schemaVars
    /\ Retain
    /\ Observe

\* The INSERT of the createNote call of task t commits a row under a new id.
StoreCreate(t, id) ==
    /\ t.phase = "create"
    /\ rows[id] = NoSuchRow
    /\ rows' = [rows EXCEPT ![id] = NewNote]
    /\ LET w == resume(World, t, TRUE)
       IN  Commit(w) /\ ev' = Event("created", id, TRUE, t, w)
    /\ Awaited([t EXCEPT !.id = id], TRUE, NewNote)
    /\ UNCHANGED <<calls, wanted, burst, cancelled>>
    /\ UNCHANGED schemaVars
    /\ Retain
    /\ Observe

\* The 500 ms timer loadNote set fires.
InitDelayElapses ==
    /\ sess.initTimer > 0
    /\ ScreenStep("ready", Pair(World, [sess EXCEPT !.initTimer = @ - 1,
                                                    !.isInitializing = FALSE]))
    /\ UNCHANGED <<calls, discard>>

\* The screen shows the editor and no alert covers it; the title input, the
\* editor and the Save button are disabled while isSaving.
Editable == sess.st = "open" /\ ~sess.isLoading /\ sess.note /\ ~sess.isSaving

\* The screen shows the error state; its Retry button runs loadNote.
UserRetries ==
    /\ sess.st = "open" /\ ~sess.isLoading /\ sess.error
    /\ ScreenStep("retry", loadNote(World, sess))
    /\ calls' = calls + 1
    /\ UNCHANGED discard

UserEditsContent(v) ==
    /\ Editable
    /\ ScreenStep("editContent", handleContentChange(World, sess, v))
    /\ calls' = calls + 1
    /\ discard' = Late(discard)

UserEditsTitle(v) ==
    /\ Editable
    /\ ScreenStep("editTitle", handleTitleChange(World, sess, v))
    /\ calls' = calls + 1
    /\ discard' = Late(discard)

UserSaves ==
    /\ Editable
    /\ ScreenStep("save", handleSave(World, sess, "handleSave",
                                     sess.note, sess.isSaving))
    /\ calls' = calls + 1
    /\ discard' = [discard EXCEPT !.saved = TRUE]

\* The back button of the editor, or Go Back of the error state.
UserGoesBack ==
    /\ sess.st = "open" /\ ~sess.isLoading
    /\ ScreenStep("back", Pair(World, IF sess.error THEN routerBack(sess)
                                      ELSE handleBack(sess)))
    /\ calls' = calls + 1
    /\ UNCHANGED discard

UserDiscards ==
    /\ sess.st = "alert"
    /\ ScreenStep("discard", onDiscard(World, sess))
    /\ calls' = calls + 1
    /\ discard' =
          IF sess.shown.note
          THEN [discard EXCEPT
                   !.st = "chosen", !.late = FALSE,
                   !.asLoaded = /\ sess.shown.title = discard.loaded.title
                                /\ sess.shown.content = discard.loaded.content]
          ELSE discard

UserSavesAndExits ==
    /\ sess.st = "alert"
    /\ ScreenStep("saveAndExit", onSaveAndExit(World, sess))
    /\ calls' = calls + 1
    /\ discard' = [discard EXCEPT !.saved = TRUE]

UserCancels ==
    /\ sess.st = "alert"
    /\ ScreenStep("stay", Pair(World, [sess EXCEPT !.st = "open"]))
    /\ calls' = calls + 1
    /\ UNCHANGED discard

\* The app goes to the background while the screen is mounted.
AppGoesToBackground ==
    /\ sess.st \in {"open", "alert", "leaving", "unfocused"}
    /\ ScreenStep("background", Pair(handleAppStateChange(World, sess), sess))
    /\ calls' = calls + 1
    /\ UNCHANGED discard

\* After router.back() the screen loses focus, then unmounts.
ScreenUnfocuses ==
    /\ sess.st = "leaving"
    /\ ScreenStep("unfocus", Pair(onUnfocus(World, sess),
                                  [sess EXCEPT !.st = "unfocused"]))
    /\ UNCHANGED <<calls, discard>>

ScreenUnmounts ==
    /\ sess.st = "unfocused"
    /\ ScreenStep("unmount", Pair(cleanup(World), [sess EXCEPT !.st = "gone"]))
    /\ UNCHANGED <<calls, discard>>

SessionNext ==
    \/ ScreenMounts(SessionId)
    \/ InitDelayElapses
    \/ \E v \in Typed : calls < MaxEvents /\ UserEditsContent(v)
    \/ \E v \in Typed : calls < MaxEvents /\ UserEditsTitle(v)
    \/ calls < MaxEvents /\ UserSaves
    \/ calls < MaxEvents /\ UserRetries
    \/ calls < MaxEvents /\ UserGoesBack
    \/ calls < MaxEvents /\ UserDiscards
    \/ calls < MaxEvents /\ UserSavesAndExits
    \/ calls < MaxEvents /\ UserCancels
    \/ calls < MaxEvents /\ AppGoesToBackground
    \/ ScreenUnfocuses
    \/ ScreenUnmounts
    \/ \E id \in Ids : TimerFires(id)
    \/ \E id \in Ids : OrphanTimerFires(id)
    \/ \E t \in InFlight : StoreInit(t)
    \/ \E t \in InFlight : StoreGet(t)
    \/ \E t \in InFlight : StoreRead(t)
    \/ \E t \in InFlight : StoreWrite(t)
    \/ \E t \in InFlight : StoreFails(t)

SessionSpec == Init /\ [][SessionNext]_vars

\* ------------------------------------------------------------------ CloseSpec
\* The screen opened on note SessionId by a user who types one content, saves,
\* retries and leaves in every way the screen offers.
CloseNext ==
    \/ ScreenMounts(SessionId)
    \/ InitDelayElapses
    \/ calls < MaxEvents /\ UserEditsContent("a")
    \/ calls < MaxEvents /\ UserSaves
    \/ calls < MaxEvents /\ UserRetries
    \/ calls < MaxEvents /\ UserGoesBack
    \/ calls < MaxEvents /\ UserDiscards
    \/ calls < MaxEvents /\ UserSavesAndExits
    \/ calls < MaxEvents /\ UserCancels
    \/ ScreenUnfocuses
    \/ ScreenUnmounts
    \/ \E id \in Ids : TimerFires(id)
    \/ \E id \in Ids : OrphanTimerFires(id)
    \/ \E t \in InFlight : StoreInit(t)
    \/ \E t \in InFlight : StoreGet(t)
    \/ \E t \in InFlight : StoreRead(t)
    \/ \E t \in InFlight : StoreWrite(t)
    \/ \E t \in InFlight : StoreFails(t)

CloseSpec == Init /\ [][CloseNext]_vars

\* ------------------------------------------------------------------ OpenSpec
\* The NoteDetail screen opened on the route of a note that is there, deleted
\* or unknown, or on the "create new" route; the user may retry and leave.
Routes == {SessionId, NewRoute}
FreshId == "n2"

OpenRows ==
    { [id \in Ids |-> IF id = FreshId THEN NoSuchRow ELSE r] :
        r \in {LiveRow, SoftDeleted(LiveRow), NoSuchRow} }

OpenInit == (\E r \in OpenRows : Start(r)) /\ Store(AllColumns)

OpenNext ==
    \/ \E noteId \in Routes : ScreenMounts(noteId)
    \/ InitDelayElapses
    \/ calls < MaxEvents /\ UserRetries
    \/ calls < MaxEvents /\ UserGoesBack
    \/ ScreenUnfocuses
    \/ ScreenUnmounts
    \/ \E t \in InFlight : StoreInit(t)
    \/ \E t \in InFlight : StoreGet(t)
    \/ \E t \in InFlight, id \in Ids : StoreCreate(t, id)
    \/ \E t \in InFlight : StoreFails(t)

OpenSpec == OpenInit /\ [][OpenNext]_vars

\* ------------------------------------------------------------------ SchemaSpec
\* Three callers of the repository, each making one call, on a store that has
\* no notes table or one from an earlier version, which lacks some of the
\* columns of Lacking.
Lacking == {"plain_text", "is_deleted", "metadata", "word_count"}

OldTables == {{}} \cup { AllColumns \ l : l \in SUBSET Lacking }

SchemaInit ==
    /\ Start([id \in Ids |-> LiveRow])
    /\ \E tb \in OldTables : Store(tb)

SchemaNext ==
    \/ \E p \in Callers : CallInitializeDatabase(p)
    \/ \E p \in Callers : CallQuery(p)
    \/ \E p \in Callers : PollEnds(p)
    \/ \E p \in Callers : OpenDatabase(p)
    \/ \E p \in Callers : EnableWal(p)
    \/ \E p \in Callers : TableInfo(p)
    \/ \E p \in Callers : AlterTable(p)
    \/ \E p \in Callers : CreateTable(p)
    \/ \E p \in Callers : CreateIndex(p, TRUE)
    \/ \E p \in Callers : TestDatabase(p)
    \/ \E p \in Callers : InitializeFails(p)
    \/ \E p \in Callers : RunQuery(p)

SchemaSpec == SchemaInit /\ [][SchemaNext]_vars

\* ------------------------------------------------------------------ IndexSpec
\* The same with two callers, and with index creations that can fail; in
\* SchemaSpec every index creation succeeds.
IndexCallers == {"p1", "p2"}

IndexNext ==
    \/ \E p \in IndexCallers : CallInitializeDatabase(p)
    \/ \E p \in IndexCallers : CallQuery(p)
    \/ \E p \in IndexCallers : PollEnds(p)
    \/ \E p \in IndexCallers : OpenDatabase(p)
    \/ \E p \in IndexCallers : EnableWal(p)
    \/ \E p \in IndexCallers : TableInfo(p)
    \/ \E p \in IndexCallers : AlterTable(p)
    \/ \E p \in IndexCallers : CreateTable(p)
    \/ \E p \in IndexCallers, ok \in BOOLEAN : CreateIndex(p, ok)
    \/ \E p \in IndexCallers : TestDatabase(p)
    \/ \E p \in IndexCallers : InitializeFails(p)
    \/ \E p \in IndexCallers : RunQuery(p)

IndexSpec == SchemaInit /\ [][IndexNext]_vars

\* ------------------------------------------------------------------ RepoSpec
\* The repository functions called on a table that starts empty, the database
\* being initialised.

\* The note of the scenario of the specification.
HelloWorld == <<"<p>", "Hello", " ", "world", "</p>">>

\* CreateNoteParams with the content html.
NewNotes(html) ==
    { [title |-> <<"Hello">>, content |-> html, folderId |-> "null", tags |-> {}],
      [title |-> <<>>, content |-> html, folderId |-> "f1", tags |-> {"t"}] }

\* UpdateNoteParams without the id: the provided fields.
Updates ==
    { [title |-> <<"world">>],
      [content |-> <<"<p>", "world", "</p>">>],
      [title |-> <<"world">>, content |-> <<"<p>", "world", "</p>">>] }

\* SearchNotesParams, the defaults filled in for the fields left out: at most
\* one of the folder and the tags is given, and a limit is given only when
\* nothing else is.
Searches ==
    { p \in [query : {<<>>, <<"Hello">>, <<"%">>}, folderId : {Absent, "null"},
             tags : {{}, {"t"}}, includeDeleted : BOOLEAN, limit : {100, 1}] :
        /\ p.folderId = Absent \/ p.tags = {}
        /\ p.limit = 100 \/ (p.query = <<>> /\ p.folderId = Absent /\ p.tags = {}) }

Returns(op, ok, id, params, notes) ==
    [op |-> op, ok |-> ok, id |-> id, params |-> params, notes |-> notes,
     old |-> SelectSeq(repo.table, LAMBDA row : row.id = id)]

RepoStep(r) ==
    /\ repo' = r
    /\ UNCHANGED <<db, isInitializing, columns, before, last, proc, serviceVars>>

\* createNote(params) runs; id is what Crypto.randomUUID returns.
CreateNote(id, params) ==
    /\ repo.now <= MaxWrites
    /\ \A i \in 1..Len(repo.table) : repo.table[i].id # id
    /\ LET note == createNote(id, params, repo.now)
           noteRow == transformNoteToNoteRow(note)
       IN  RepoStep([repo EXCEPT
              !.table = Append(@, [noteRow EXCEPT
                                     !.reading_time = IF @ = 0 THEN 1 ELSE @]),
              !.now = @ + 1,
              !.out = Returns("create", TRUE, id, params, <<note>>)])

\* updateNote(params) runs up to its UPDATE statement: getNoteById, and the
\* merge at the time the row came back.
UpdateNoteReads(id, params) ==
    /\ repo.now <= MaxWrites
    /\ LET got == getNoteById(repo.table, id)
       IN  IF got = <<>>
           THEN RepoStep([repo EXCEPT
                   !.out = Returns("update", FALSE, id, params, <<>>)])
           ELSE RepoStep([repo EXCEPT
                   !.reads = @ \cup
                       {[id |-> id, params |-> params,
                         note |-> updateNote(transformNoteRowToNote(got[1]),
                                             params, repo.now)]},
                   !.now = @ + 1])

\* The UPDATE statement of an updateNote commits, and the call returns.
UpdateNoteWrites(t) ==
    RepoStep([repo EXCEPT
       !.table = updateRow(@, transformNoteToNoteRow(t.note)),
       !.reads = @ \ {t},
       !.out = Returns("update", TRUE, t.id, t.params, <<t.note>>)])

\* deleteNote(id) of the repository runs.
SoftDeleteNote(id) ==
    /\ repo.now <= MaxWrites
    /\ RepoStep([repo EXCEPT
          !.table = softDelete(@, id, repo.now),
          !.now = @ + 1,
          !.out = Returns("delete", TRUE, id, <<>>, <<>>)])

\* getNoteById(id) runs.
GetNoteById(id) ==
    LET got == getNoteById(repo.table, id)
    IN  RepoStep([repo EXCEPT
           !.out = Returns("get", got # <<>>, id, <<>>,
                           [i \in 1..Len(got) |-> transformNoteRowToNote(got[i])])])

\* searchNotes(params) runs.
SearchNotes(params) ==
    RepoStep([repo EXCEPT
       !.out = Returns("search", TRUE, NoId, params,
                       searchNotes(repo.table, params))])

\* The database initialised, the table empty, the calls made with content html.
Repo(html) ==
    /\ Start([id \in Ids |-> LiveRow])
    /\ db = "open" /\ isInitializing = FALSE
    /\ columns = AllColumns /\ before = AllColumns
    /\ last = "ok"
    /\ proc = [p \in Callers |-> NoProc]
    /\ repo = [NoRepo EXCEPT !.html = html]

RepoInit == \E html \in {HelloWorld, <<"<p>", "&amp;", "</p>">>} : Repo(html)

RepoNext ==
    \/ \E id \in Ids, params \in NewNotes(repo.html) : CreateNote(id, params)
    \/ \E id \in Ids, params \in Updates : UpdateNoteReads(id, params)
    \/ \E t \in repo.reads : UpdateNoteWrites(t)
    \/ \E id \in Ids : SoftDeleteNote(id)
    \/ \E id \in Ids : GetNoteById(id)
    \/ \E params \in Searches : SearchNotes(params)

RepoSpec == RepoInit /\ [][RepoNext]_vars

\* ------------------------------------------------------------------ TextSpec
\* Notes created with every content of at most MaxLen pieces, and read back.
Html ==
    {HelloWorld} \cup
    UNION { [1..n -> {"<p>", "Hello", " ", "&amp;", "&nbsp;"}] : n \in 0..MaxLen }

TextInit == \E html \in Html : Repo(html)

TextNext ==
    \/ \E id \in Ids, params \in NewNotes(repo.html) : CreateNote(id, params)
    \/ \E id \in Ids : GetNoteById(id)

TextSpec == TextInit /\ [][TextNext]_vars

\* ------------------------------------------------------------------ claims
\* C1 (debounce): when a run of N >= 1 scheduleAutoSave calls on a note, each
\* made before the timer of the previous one fires and with no other call on
\* the note, has ended with the timer firing, exactly one updateNote has been
\* issued for the note since the run began, and it carries, for every field
\* any of the N calls gave, the value of the last call that gave it.
C1_Debounce ==
    \A id \in Ids :
        burst[id].st = "done" =>
            /\ issued[id] = burst[id].base + 1
            /\ lastIssued[id] = burst[id].exp

\* A run of three calls that gave both fields has ended in its one update.
C1_Witness ==
    \E id \in Ids :
        /\ burst[id].st = "done"
        /\ burst[id].n = 3
        /\ burst[id].exp.title # Absent
        /\ burst[id].exp.content # Absent
        /\ issued[id] = burst[id].base + 1

\* Some update in flight for the note carries value v for field f.
Carried(id, f, v) ==
    \E t \in InFlight :
        /\ t.id = id
        /\ t.phase \in {"read", "write"}
        /\ t.changes[f] = v

\* C2 (no edit silently dropped): the latest value handed to scheduleAutoSave
\* for a field of a note, unless a cancel, explicit save, delete or cleanup
\* came after it, is at every moment still in the note's pending buffer, or
\* carried by an update in flight, or the value of the row.
C2_NoEditDropped ==
    \A id \in Ids, f \in Fields :
        wanted[id][f] # Absent =>
            \/ MapGet(pendingChanges, id)[f] = wanted[id][f]
            \/ Carried(id, f, wanted[id][f])
            \/ rows[id][f] = wanted[id][f]

\* C3 (one timer per note): no note ever has two timers set and not yet fired.
C3_AtMostOneTimer ==
    \A id \in Ids : ArmedTimers(id) <= 1

\* The updateNote calls in flight for one note.
UpdatesInFlight(id) ==
    LET ts == { t \in InFlight : t.id = id /\ t.phase \in {"read", "write"} }
    IN  BagCardinality([t \in ts |-> CopiesIn(t, tasks)])

\* C4 (one update in flight per note): no note ever has two updateNote calls
\* started and not yet completed.
C4_OneUpdateInFlight ==
    \A id \in Ids : UpdatesInFlight(id) <= 1

\* C5 (updates of a note are serial): an update that has read the row and has
\* yet to write it back holds the title, content and version the row has now,
\* so no update writes back what it read before another update committed.
C5_NoStaleWriteBack ==
    \A t \in InFlight :
        t.phase = "write" =>
            /\ t.existing.title = rows[t.id].title
            /\ t.existing.content = rows[t.id].content
            /\ t.existing.version = rows[t.id].version

\* C6 (cancel clears timer and buffer): right after cancelAutoSave(id) the
\* note has no pending changes, and no timer or flush issues a write for a
\* note cancelled and not rescheduled since.
C6_CancelClears ==
    /\ ev.op = "cancel" => ~hasPendingChanges(ev.id)
    /\ ev.wrote # NoId => ~cancelled[ev.wrote].c

\* C7 (cancellation): after cancelAutoSave(id) called with a timer of the note
\* set, and no call since, no timer or flush issues a write for the note.
C7_CancelThenQuiet ==
    ev.wrote # NoId => ~cancelled[ev.wrote].q

C9_FailureRetains ==
    [][ /\ (ev'.op = "update" /\ ~ev'.ok /\ ev'.kind \in {"auto", "flush"}) =>
            /\ pendingChanges' = pendingChanges
            /\ \A id \in Ids : ArmedTimers(id)' <= ArmedTimers(id)
        /\ \A id \in Ids :
              (retained[id] /\ ~MapHas(pendingChanges', id)) =>
                  \/ ev'.op \in {"cancel", "delete", "cleanup"}
                  \/ /\ ev'.op = "update"
                     /\ ev'.ok
                     /\ ev'.id = id
                     /\ ev'.changes = MapGet(pendingChanges, id)
      ]_vars

\* C10 (discard): once the write-back made for Discard has succeeded, in a
\* session where the user did not ask for a save and did not edit after
\* choosing Discard, the row of the note has the title and content it had when
\* the screen loaded it, and keeps them while and after the screen closes.
C10_DiscardRestores ==
    (/\ discard.st = "reverted"
     /\ discard.asLoaded
     /\ ~discard.late
     /\ ~discard.saved) =>
        /\ rows[SessionId].title = discard.loaded.title
        /\ rows[SessionId].content = discard.loaded.content

\* C11 (background flush): when the user of a loaded note has only edited its
\* title, the app has gone to the background before any timer fired, and the
\* flush is over, the row has the title the screen shows (or "Untitled Note"
\* for an empty one) and the content and version it had before.
C11_TitleOnlyFlush ==
    (scen.titleOnly = "flushed" /\ tasks = EmptyBag) =>
        /\ rows[SessionId].title = OrDefault(sess.noteTitle, "Untitled Note")
        /\ rows[SessionId].content = discard.loaded.content
        /\ rows[SessionId].version = 1

\* C12 (no write after a save): once an explicit save of the note has
\* succeeded and while the user has not edited since the save was asked for,
\* no timer or flush issues an update for the note, and the row has the title
\* and content that were saved.
C12_NothingAfterSave ==
    scen.saved = "saved" =>
        /\ ev.wrote # SessionId
        /\ rows[SessionId].title = OrDefault(sess.originalTitle, "Untitled Note")
        /\ rows[SessionId].content = OrDefault(sess.originalContent, "<p></p>")

\* C13 (failed save): a step in which the updateNote of an explicit save fails,
\* be it a save from the editor or the one of Save & Exit, leaves the screen
\* where it was (it does not leave), and leaves the working title and content,
\* the originals and hasUnsavedChanges as they were.
C13_FailedSaveStays ==
    [][ (ev'.op = "update" /\ ev'.kind = "save" /\ ~ev'.ok) =>
            /\ sess'.st = sess.st
            /\ sess'.noteTitle = sess.noteTitle
            /\ sess'.noteContent = sess.noteContent
            /\ sess'.originalTitle = sess.originalTitle
            /\ sess'.originalContent = sess.originalContent
            /\ sess'.hasUnsavedChanges = sess.hasUnsavedChanges
      ]_vars

\* C14 (explicit save): a step in which handleSave starts a save from the
\* editor leaves no timer of the note set and issues one updateNote carrying
\* the working title and content (defaults for empty ones); and the step in
\* which that call succeeds makes the originals the title and content saved,
\* ends isSaving, leaves the screen where it was, and leaves
\* hasUnsavedChanges true only if the working copy has changed since.
C14_ExplicitSave ==
    [][ /\ (ev'.op = "save" /\ sess'.isSaving /\ ~sess.isSaving) =>
            /\ ArmedTimers(SessionId)' = 0
            /\ issued'[SessionId] = issued[SessionId] + 1
            /\ lastIssued'[SessionId] =
                  [title |-> OrDefault(sess.noteTitle, "Untitled Note"),
                   content |-> OrDefault(sess.noteContent, "<p></p>")]
        /\ (ev'.op = "update" /\ ev'.fn = "handleSave" /\ ev'.ok) =>
            /\ OrDefault(sess'.originalTitle, "Untitled Note") = ev'.changes.title
            /\ OrDefault(sess'.originalContent, "<p></p>") = ev'.changes.content
            /\ ~sess'.isSaving
            /\ sess'.st = sess.st
            /\ sess'.hasUnsavedChanges =>
                  \/ sess'.noteTitle # sess'.originalTitle
                  \/ sess'.noteContent # sess'.originalContent
      ]_vars

\* C15 as stated: the session controller only takes the transitions
\* Loading -> Ready, Loading -> Error, Ready -> Saving, Saving -> Ready and
\* Ready -> Closed; Closed is terminal and is never entered from Saving,
\* Loading or Error. (Mounting enters Loading; the return of the save of
\* Save & Exit is Saving -> Ready -> Closed in one step.)
Stated ==
    { <<"Unmounted", "Loading">>, <<"Loading", "Ready">>, <<"Loading", "Error">>,
      <<"Ready", "Saving">>, <<"Saving", "Ready">>, <<"Ready", "Closed">> }

ThroughReady ==
    /\ ev'.op = "update" /\ ev'.fn = "saveAndExit"
    /\ Phase(sess) = "Saving" /\ Phase(sess') = "Closed"

LoadFailed ==
    \/ ev'.op = "inited" /\ ~ev'.ok
    \/ ev'.op = "got" /\ ~ev'.ok /\ sess.noteId # NewRoute
    \/ ev'.op = "created" /\ ~ev'.ok

Dirty(s) == s.noteTitle # s.originalTitle \/ s.noteContent # s.originalContent

C17_CloseRequested ==
    [][ /\ (ev'.op = "back" /\ sess.note) =>
              /\ ~Dirty(sess) => sess'.st = "leaving"
              /\ Dirty(sess) => sess'.st = "alert"
        /\ ev'.op = "stay" =>
              /\ sess'.st = "open" /\ sess'.note /\ ~sess'.isLoading
              /\ sess'.noteTitle = sess.noteTitle
              /\ sess'.noteContent = sess.noteContent
              /\ sess'.originalTitle = sess.originalTitle
              /\ sess'.originalContent = sess.originalContent
              /\ pendingChanges' = pendingChanges
              /\ autoSaveTimers' = autoSaveTimers /\ orphans' = orphans
              /\ tasks' = tasks /\ issued' = issued /\ rows' = rows ]_vars

\* C18 (one initialisation at a time): at most one schema initialisation runs
\* at a time; a call of initializeDatabase that arrives while another is in
\* flight does not open the store or run CREATE/ALTER TABLE itself, it waits
\* until the in-flight initialisation finishes and then returns that
\* initialisation's outcome.
C18_InFlightOutcome ==
    /\ Cardinality({p \in Callers : proc[p].pc \in Running}) <= 1
    /\ \A p \in Callers :
          proc[p].waited # "-" =>
              /\ proc[p].pc \notin Running
              /\ proc[p].existing = {} /\ proc[p].todo = <<>>
              /\ proc[p].got # "-" => proc[p].got = proc[proc[p].waited].got

\* C18 (amended): at most one schema initialisation runs at a time; a call of
\* initializeDatabase that arrives while another is in flight does not open
\* the store or run CREATE/ALTER TABLE itself, it waits until no
\* initialisation is in flight and then returns the outcome of the last
\* initialisation to finish, which is the one that was in flight or a later
\* one.
C18_OneInitialization ==
    [][ /\ Cardinality({p \in Callers : proc'[p].pc \in Running}) <= 1
        /\ \A p \in Callers :
              proc'[p].waited # "-" =>
                  /\ proc'[p].pc \notin Running
                  /\ proc'[p].existing = {} /\ proc'[p].todo = <<>>
                  /\ proc[p].waited = "-" => proc[proc'[p].waited].pc \in Running
                  /\ (proc[p].got = "-" /\ proc'[p].got # "-") =>
                        /\ ~isInitializing
                        /\ proc[proc[p].waited].got # "-"
                        /\ proc'[p].got = last ]_vars

\* A call that waited for an initialisation that failed has returned success.
C18_Witness ==
    \E p \in Callers :
        /\ proc[p].waited # "-" /\ proc[p].got = "ok"
        /\ proc[proc[p].waited].got = "failed"

\* C19 (no query before the schema is ready): no repository query is executed
\* against the store before schema initialisation has completed, that is,
\* before the notes table exists with all required columns, also when the
\* call is issued while an initialisation started by another caller is still
\* in flight.
C19_NoEarlyQuery == \A p \in Callers : proc[p].ran # "early"

\* C20 (additive migration): after the initialisation succeeds on a store
\* whose notes table already exists with any subset of the current columns,
\* the table has every column of the current schema, and every column and row
\* that existed before is still there.
C20_AllColumnsAdded ==
    (before # {} /\ \E p \in Callers : proc[p].got = "ok" /\ proc[p].waited = "-") =>
        /\ AllColumns \subseteq columns
        /\ before \subseteq columns
        /\ rows = [id \in Ids |-> LiveRow]

\* C21 (failure and retry): if opening the store or creating or altering the
\* table fails, initializeDatabase returns a failure, leaves no cached store
\* handle and no in-flight flag, and a later call attempts the whole
\* initialisation again from scratch (and can succeed); after a successful
\* initialisation every later call returns success without touching the store.
C21_FailureResets ==
    [][ \A p \in Callers :
          /\ (proc[p].pc \in Running /\ proc'[p].got = "failed") =>
                /\ db' = "null" /\ ~isInitializing'
                /\ proc'[p].pc = "done" /\ proc'[p].result = "failed"
          /\ (proc[p].pc = "idle" /\ proc'[p].pc # "idle" /\ last = "failed"
                /\ db = "null" /\ ~isInitializing) =>
                /\ proc'[p].pc = "open" /\ isInitializing'
          /\ (proc[p].pc = "idle" /\ proc'[p].op = "init" /\ last = "ok") =>
                /\ proc'[p].pc = "done" /\ proc'[p].result = "ok"
                /\ db' = db /\ db = "open" /\ columns' = columns
                /\ isInitializing' = isInitializing /\ ~isInitializing ]_vars

\* An initialisation failed, a later one succeeded, and a call made after
\* that has returned success.
C21_Witness ==
    \E p, q, r \in Callers :
        /\ proc[p].got = "failed" /\ proc[p].waited = "-"
        /\ proc[q].got = "ok" /\ proc[q].waited = "-" /\ q # r
        /\ proc[r].op = "init" /\ proc[r].result = "ok" /\ proc[r].waited = "-"
        /\ last = "ok" /\ db = "open"

\* C23 (version and title): an update that touches only the title never
\* changes the note's version; an update that includes a changed content
\* increases the version by exactly 1.
C23_VersionOnContent ==
    [][ \A id \in Ids :
          (ev'.op = "update" /\ ev'.ok /\ ev'.id = id) =>
              /\ ev'.changes.content = Absent =>
                    rows'[id].version = rows[id].version
              /\ (ev'.changes.content # Absent
                    /\ ev'.changes.content # rows[id].content) =>
                    rows'[id].version = rows[id].version + 1 ]_vars

\* C24 (version never decreases): no sequence or interleaving of writes of a
\* note makes its persisted version smaller.
C24_VersionNonDecreasing ==
    [][ \A id \in Ids : rows'[id].version >= rows[id].version ]_vars

\* C28 (update of a missing note): an updateNote whose lookup meets an id that
\* is absent or soft-deleted returns a failure result, and no row of the table
\* is created or modified.
C28_UpdateNotFound ==
    [][ \A t \in InFlight :
          (/\ t.phase = "read"
           /\ rows[t.id].isDeleted
           /\ CopiesIn(t, tasks') < CopiesIn(t, tasks)) =>
              /\ ev'.op = "update" /\ ev'.id = t.id /\ ~ev'.ok
              /\ rows' = rows ]_vars

\* An explicit save of a soft-deleted note has returned its failure.
C28_Witness ==
    /\ ev.op = "update" /\ ~ev.ok /\ ev.kind = "save"
    /\ rows[ev.id].isDeleted
    /\ \E id \in Ids : ~rows[id].isDeleted

\* The derived fields are those of the content.
Derived(plainText, wordCount, metadata, content) ==
    /\ plainText = extractPlainText(content)
    /\ wordCount = calculateWordCount(extractPlainText(content))
    /\ metadata.readingTime =
          calculateReadingTime(calculateWordCount(extractPlainText(content)))
    /\ metadata.characterCount = length(content)

\* C25 (derived fields): after any successful create or update, the persisted
\* plainText, wordCount, readingTime and characterCount of every note are those
\* derived from its persisted content, and so are those of every note a call
\* returns to a reader.
C25_DerivedConsistent ==
    /\ \A i \in 1..Len(repo.table) :
          Derived(repo.table[i].plain_text, repo.table[i].word_count,
                  repo.table[i].metadata, repo.table[i].content)
    /\ \A i \in 1..Len(repo.out.notes) :
          Derived(repo.out.notes[i].plainText, repo.out.notes[i].wordCount,
                  repo.out.notes[i].metadata, repo.out.notes[i].content)

\* C22 (create): a successful createNote returns, and persists as the last row
\* of the table, a note with version 1, isDeleted false, dateCreated equal to
\* lastModified, and the plainText, wordCount and readingTime derived from the
\* content given; for "<p>Hello world</p>" these are "Hello world", 2 and 1.
C22_Create ==
    repo.out.op = "create" =>
        LET note == repo.out.notes[1]
            row == repo.table[Len(repo.table)]
        IN  /\ repo.out.ok
            /\ note.content = repo.out.params.content
            /\ note.metadata.version = 1 /\ ~note.isDeleted
            /\ note.dateCreated = note.lastModified
            /\ Derived(note.plainText, note.wordCount, note.metadata,
                       note.content)
            /\ note.content = HelloWorld =>
                  /\ note.plainText = <<"Hello", " ", "world">>
                  /\ note.wordCount = 2
                  /\ note.metadata.readingTime = 1
            /\ \A i \in 1..Len(note.plainText) :
                  note.plainText[i] \notin {"<p>", "</p>", "&amp;", "&nbsp;"}
            /\ row.id = note.id /\ row.content = note.content
            /\ row.plain_text = note.plainText
            /\ row.word_count = note.wordCount
            /\ row.reading_time = note.metadata.readingTime
            /\ row.metadata = note.metadata
            /\ row.is_deleted = 0
            /\ row.created_at = row.updated_at
            /\ row.created_at = note.dateCreated

\* The note of the scenario has been created and is the second row.
C22_Witness ==
    /\ repo.out.op = "create" /\ repo.out.ok
    /\ repo.out.notes[1].content = HelloWorld
    /\ repo.out.notes[1].plainText = <<"Hello", " ", "world">>
    /\ Len(repo.table) = 2

\* C26 (softDelete is idempotent): a softDelete of a note leaves it with
\* isDeleted = true and with the title, content, version and every other
\* column but updated_at it had, so a second softDelete leaves the row as the
\* first one did, up to that timestamp; no other row changes.
C26_SoftDeleteIdempotent ==
    repo.out.op = "delete" =>
        /\ repo.out.ok
        /\ \A i \in 1..Len(repo.table) :
              LET row == repo.table[i]
              IN  row.id = repo.out.id =>
                     /\ row.is_deleted = 1
                     /\ Len(repo.out.old) = 1
                     /\ [row EXCEPT !.updated_at = 0] =
                        [repo.out.old[1] EXCEPT !.updated_at = 0,
                                                !.is_deleted = 1]
                     /\ repo.out.old[1].is_deleted = 1 =>
                           /\ row.title = repo.out.old[1].title
                           /\ row.content = repo.out.old[1].content
                           /\ row.metadata.version =
                                 repo.out.old[1].metadata.version
        /\ Len(repo.out.old) = 0 =>
              \A i \in 1..Len(repo.table) : repo.table[i].id # repo.out.id

\* A softDelete has run on a note that was soft-deleted already.
C26_Witness ==
    /\ repo.out.op = "delete"
    /\ repo.out.old # <<>>
    /\ repo.out.old[1].is_deleted = 1
    /\ repo.out.old[1].updated_at > repo.out.old[1].created_at

\* The notes a default search returns are not soft-deleted.
DefaultSearchExcludes ==
    (repo.out.op = "search" /\ ~repo.out.params.includeDeleted) =>
        \A i \in 1..Len(repo.out.notes) : ~repo.out.notes[i].isDeleted

\* C27 as stated (soft-deleted notes): a note with isDeleted = true is excluded
\* from the default search results and getNoteById still returns it.
C27_RetrievableById ==
    /\ DefaultSearchExcludes
    /\ (repo.out.op = "get" /\ repo.out.old # <<>>
          /\ repo.out.old[1].is_deleted = 1) =>
           /\ repo.out.ok
           /\ Len(repo.out.notes) = 1
           /\ repo.out.notes[1].id = repo.out.id

\* C27 amended (soft-deleted notes): a note with isDeleted = true is excluded
\* from the default search results and from getNoteById, which reports it as
\* not found; its row stays in the table, and a search with includeDeleted =
\* true, no other filter and a limit the table does not reach returns it.
C27_Excluded ==
    /\ DefaultSearchExcludes
    /\ (repo.out.op = "get" /\ repo.out.old # <<>>
          /\ repo.out.old[1].is_deleted = 1) =>
           /\ ~repo.out.ok
           /\ repo.out.notes = <<>>
    /\ (repo.out.op = "search" /\ repo.out.params.includeDeleted
          /\ repo.out.params.query = <<>> /\ repo.out.params.tags = {}
          /\ repo.out.params.folderId = Absent
          /\ repo.out.params.limit = 100) =>
           \A i \in 1..Len(repo.table) :
              repo.table[i].is_deleted = 1 =>
                 \E j \in 1..Len(repo.out.notes) :
                    /\ repo.out.notes[j].id = repo.table[i].id
                    /\ repo.out.notes[j].isDeleted

\* getNoteById has been called with the id of a soft-deleted note, another
\* note being live.
C27_Witness ==
    /\ repo.out.op = "get" /\ ~repo.out.ok
    /\ repo.out.old # <<>>
    /\ repo.out.old[1].is_deleted = 1
    /\ \E i \in 1..Len(repo.table) : repo.table[i].is_deleted = 0

\* The string q occurs in the string text.
Contains(text, q) ==
    \E i \in 1..(Len(text) + 1) :
        /\ i + Len(q) - 1 <= Len(text)
        /\ SubSeq(text, i, i + Len(q) - 1) = q

\* C29 (search): a search that does not include deleted notes returns no note
\* with isDeleted = true; every note returned has the query as a substring of
\* its title or its plainText, is in the folder asked for (null included)
\* and carries every tag asked for; and at most limit notes are returned.
C29_SearchFilters ==
    repo.out.op = "search" =>
        LET params == repo.out.params
        IN  /\ DefaultSearchExcludes
            /\ Len(repo.out.notes) <= params.limit
            /\ \A i \in 1..Len(repo.out.notes) :
                  LET note == repo.out.notes[i]
                  IN  /\ params.query # <<>> =>
                            \/ Contains(note.title, params.query)
                            \/ Contains(note.plainText, params.query)
                      /\ params.folderId # Absent =>
                            note.folderId = params.folderId
                      /\ params.tags \subseteq note.tags

\* C30 (round trip): the entity transformNoteRowToNote makes of a stored row,
\* given to transformNoteToNoteRow, gives back every column of that row, the
\* reading_time and last_edit_position among them.
C30_RoundTrip ==
    (repo.out.op = "get" /\ repo.out.ok) =>
        transformNoteToNoteRow(repo.out.notes[1]) = repo.out.old[1]

C32_EditsSchedule ==
    [][ /\ (ev'.op = "editContent" /\ Phase(sess) = "Ready") =>
              /\ autoSaveTimers'[sess.id] = "armed"
              /\ MapHas(pendingChanges', sess.id)
              /\ MapGet(pendingChanges', sess.id).content =
                    OrDefault(sess'.noteContent, "<p></p>")
        /\ (ev'.op = "editTitle" /\ Phase(sess) = "Ready") =>
              /\ autoSaveTimers'[sess.id] = "armed"
              /\ MapHas(pendingChanges', sess.id)
              /\ MapGet(pendingChanges', sess.id).title =
                    OrDefault(sess'.noteTitle, "Untitled Note") ]_vars

\* C33 (autosave carries the working copy): a step in which a timer or a
\* flush issues an updateNote for the note the screen has open carries, for
\* every field it has, the working value of that field (the default for an
\* empty one); so after an edit and an edit back to the original no such
\* write carries the value in between.
C33_CarriesWorkingCopy ==
    [][ ( /\ sess.st = "open" /\ sess.note
          /\ ev'.wrote = sess.id
          /\ issued'[sess.id] = issued[sess.id] + 1 ) =>
            /\ lastIssued'[sess.id].title \in
                  {Absent, OrDefault(sess'.noteTitle, "Untitled Note")}
            /\ lastIssued'[sess.id].content \in
                  {Absent, OrDefault(sess'.noteContent, "<p></p>")} ]_vars

\* C34 (original snapshot): a step in which the load of the screen's note
\* or the updateNote of an explicit save succeeds, and after which no call
\* of the store is in progress, leaves originalTitle and originalContent
\* equal to the title and the content of the note's row.
C34_OriginalIsPersisted ==
    [][ ( /\ ev' # ev
          /\ ev'.ok
          /\ \/ ev'.op = "update" /\ ev'.kind = "save"
                   /\ ev'.fn \in {"handleSave", "saveAndExit"}
             \/ ev'.op \in {"got", "created"} /\ ev'.fn = "loadNote"
          /\ sess'.note /\ sess'.id = ev'.id
          /\ tasks' = EmptyBag ) =>
            /\ sess'.originalTitle = rows'[sess'.id].title
            /\ sess'.originalContent = rows'[sess'.id].content ]_vars

\* C35 (opportunistic retry): a step in which a timer or flush write of a
\* note fails issues no updateNote for the note and sets no timer for it;
\* and while the note has the buffer such a failure left, a step keeps a
\* value for every field the buffer has (unless it is a deleteNote or a
\* cleanup, or the success of a write of those very changes), and a step in
\* which a timer or a flush issues an updateNote for the note carries the
\* whole buffer.
C35_OpportunisticRetry ==
    [][ /\ (ev'.op = "update" /\ ~ev'.ok /\ ev'.kind \in {"auto", "flush"}) =>
            \A id \in Ids :
               id = ev'.id =>
                  /\ issued'[id] = issued[id]
                  /\ ArmedTimers(id)' <= ArmedTimers(id)
        /\ \A id \in Ids :
              retained[id] =>
                /\ \/ \A f \in Fields :
                         MapGet(pendingChanges, id)[f] # Absent =>
                            MapGet(pendingChanges', id)[f] # Absent
                   \/ ev'.op \in {"delete", "cleanup"}
                   \/ /\ ev'.op = "update"
                      /\ ev'.ok
                      /\ ev'.id = id
                      /\ ev'.changes = MapGet(pendingChanges, id)
                /\ (ev'.wrote = id /\ issued'[id] = issued[id] + 1) =>
                      lastIssued'[id] = MapGet(pendingChanges, id)
      ]_vars

\* C36 (deleted stays deleted): a row that deleteNote has marked deleted is
\* still marked deleted after every step: no updateNote of a timer, a flush
\* or an explicit save, pending or already in progress when the note was
\* deleted, writes isDeleted = false back.
C36_StaysDeleted ==
    [][ \A id \in Ids : rows[id].isDeleted => rows'[id].isDeleted ]_vars

\* C37 (shutdown): a step that runs cleanup, called directly or by the
\* unmount effect of the screen, issues no updateNote, leaves the rows as
\* they were and leaves no timer set for any note; a timer step that finds
\* no buffer issues nothing; and once the screen is gone no timer is set
\* for its note.
C37_CleanupCancelsAll ==
    [][ /\ ev'.op \in {"cleanup", "unmount"} =>
              /\ issued' = issued
              /\ rows' = rows
              /\ \A id \in Ids : ArmedTimers(id)' = 0
        /\ \A id \in Ids :
              (ev'.op = "timer" /\ ev'.id = id /\ ~MapHas(pendingChanges, id)) =>
                  issued'[id] = issued[id]
        /\ sess'.st = "gone" => ArmedTimers(SessionId)' = 0 ]_vars

\* C38 (version only on a content change): a step in which an updateNote of
\* a timer, a flush or an explicit save succeeds with no content, or with a
\* content equal to the one the row has, leaves the version of the row as
\* it was.
C38_VersionOnlyOnChange ==
    [][ \A id \in Ids :
          ( /\ ev'.op = "update" /\ ev'.ok /\ ev'.id = id
            /\ ev'.kind \in {"auto", "flush", "save"}
            /\ ev'.changes.content \in {Absent, rows[id].content} ) =>
              rows'[id].version = rows[id].version ]_vars

\* C39 (index failures are not fatal): a step in which the creation of an
\* index fails leaves the database handle cached and the initialisation
\* running, and goes on to the next statement; the initialisation leaves its
\* index statements only for the test query, having executed all four of
\* them; no step of an index statement returns a failure; and the test query
\* that succeeds returns success whatever indexes failed.
C39_IndexFailureNotFatal ==
    [][ \A p \in Callers :
          /\ (proc[p].pc = "index" /\ proc'[p].lost # proc[p].lost) =>
                /\ db = "open" /\ db' = "open"
                /\ isInitializing' = isInitializing
                /\ proc'[p].at = proc[p].at + 1
                /\ proc'[p].pc = IF proc'[p].at = Len(Indexes)
                                 THEN "test" ELSE "index"
          /\ (proc[p].pc = "index" /\ proc'[p].pc # "index") =>
                /\ proc'[p].pc = "test"
                /\ proc'[p].at = Len(Indexes)
                /\ proc'[p].got = "-"
          /\ (proc[p].pc = "test" /\ proc'[p].pc # "test"
                /\ proc'[p].got # "failed") =>
                /\ proc'[p].got = "ok"
                /\ db' = "open" /\ last' = "ok" ]_vars

\* The creation of the second index failed, those of the other three were
\* executed and succeeded, and the initialisation returned success with the
\* handle cached.
C39_Witness ==
    \E p \in Callers :
        /\ proc[p].lost = {Indexes[2]}
        /\ proc[p].at = Len(Indexes)
        /\ proc[p].op = "init" /\ proc[p].result = "ok" /\ proc[p].waited = "-"
        /\ db = "open" /\ last = "ok" /\ ~isInitializing
====
